---- MODULE Spec2Model ----
(***************************************************************************)
(* A model of the plentysound keyword detector.                            *)
(*                                                                         *)
(*   plentysound-transcriber/src/detector.rs   run_detector: the PipeWire  *)
(*       process callback, the 100 ms timer callback (drain, convert,      *)
(*       chunk, condition, recognise, match, dedup) and try_emit_match     *)
(*   plentysound-transcriber/src/audio.rs      highpass_filter, normalize, *)
(*       check_keywords_matched, check_keywords_exact, fuzzy_match         *)
(*   src/main.rs                               the stand-alone entry point *)
(*       run_pipewire / process_audio / check_keywords                     *)
(*                                                                         *)
(* Sample counts are scaled: one model sample stands for 8000 samples, so  *)
(* CHUNK_SAMPLES = 24000 is 3 and OVERLAP_SAMPLES = 8000 is 1.  Time is    *)
(* counted in whole seconds.  Floating point filter arithmetic is done in  *)
(* fixed point with two decimal digits.                                    *)
(***************************************************************************)
EXTENDS Integers, Sequences, FiniteSets, TLC

\* ------------------------------------------------------------------------
\* Bounds of the model
\* ------------------------------------------------------------------------

\* number of process callbacks (buffers delivered by the transport) in one run
MaxPushes == 3

\* the clock stops advancing here
MaxTime == 6

\* the last position, in the mono stream, at which the word of the
\* end-to-end scenario may lie
MaxWord == 6

\* longest run of delivered samples handed to the converter on its own
MaxSamples == 9

\* length of the long slices handed to normalize on its own
SpikeLen == 120

\* ------------------------------------------------------------------------
\* Program constants
\* ------------------------------------------------------------------------

\* audio.rs:12  CHUNK_SAMPLES = 24000, in units of 8000 samples
CHUNK_SAMPLES == 3

\* audio.rs:13  OVERLAP_SAMPLES = 8000, in units of 8000 samples
OVERLAP_SAMPLES == 1

\* detector.rs:26, in units of 16000 Hz
PW_SAMPLE_RATE == 3

\* detector.rs:29
PW_CHANNELS == 2

\* detector.rs:32 (audio.rs:6), in units of 16000 Hz
VOSK_SAMPLE_RATE == 1

\* detector.rs:35, seconds
DEDUP_COOLDOWN_SECS == 3

\* audio.rs:15  FUZZY_THRESHOLD = 0.85, in hundredths
FUZZY_THRESHOLD == 85

\* i16::MIN, i16::MAX
I16_MIN == -32768

I16_MAX == 32767

\* audio.rs:44
target_rms == 3000

\* detector.rs:211
advance == CHUNK_SAMPLES - OVERLAP_SAMPLES

\* Option<T>: None is the empty sequence, Some(x) the one-element sequence
None == <<>>

Some(x) == <<x>>

\* ------------------------------------------------------------------------
\* Arithmetic helpers
\* ------------------------------------------------------------------------

Abs(x) == IF x < 0 THEN -x ELSE x

Min(a, b) == IF a <= b THEN a ELSE b

Max(a, b) == IF a >= b THEN a ELSE b

\* Rust integer division and `as i16` of a float: truncation toward zero
TruncDiv(a, b) == IF (a >= 0) = (b > 0) THEN Abs(a) \div Abs(b) ELSE -(Abs(a) \div Abs(b))

\* f64::clamp(i16::MIN, i16::MAX)
Clamp16(x) == Max(I16_MIN, Min(I16_MAX, x))

RECURSIVE IsqrtIn(_, _, _)
IsqrtIn(n, lo, hi) ==
    IF lo >= hi THEN lo
    ELSE LET mid == (lo + hi + 1) \div 2
         IN  IF mid * mid <= n THEN IsqrtIn(n, mid, hi) ELSE IsqrtIn(n, lo, mid - 1)

\* floor of the square root
Isqrt(n) == IsqrtIn(n, 0, 46340)

\* the sum of the squares, by halves
RECURSIVE SumSq(_)
SumSq(s) ==
    IF s = <<>> THEN 0
    ELSE IF Len(s) = 1 THEN s[1] * s[1]
    ELSE SumSq(SubSeq(s, 1, Len(s) \div 2)) + SumSq(SubSeq(s, Len(s) \div 2 + 1, Len(s)))

RECURSIVE SumSeq(_)
SumSeq(s) == IF s = <<>> THEN 0 ELSE Head(s) + SumSeq(Tail(s))

\* Vec::resize(n, 0) of a vector no longer than n
ResizeZero(s, n) == [i \in 1..n |-> IF i <= Len(s) THEN s[i] ELSE 0]

\* ------------------------------------------------------------------------
\* Signal conditioner (audio.rs)
\* ------------------------------------------------------------------------

\* biquad::DirectForm2Transposed::run over a slice, coefficients and state in
\* hundredths; each output is clamped and truncated to i16
RECURSIVE BiquadRun(_, _, _, _)
BiquadRun(c, xs, s1, s2) ==
    IF xs = <<>> THEN <<>>
    ELSE LET x   == Head(xs)
             out == s1 + c.b0 * x
             n1  == s2 + c.b1 * x - TruncDiv(c.a1 * out, 100)
             n2  == c.b2 * x - TruncDiv(c.a2 * out, 100)
         IN  <<Clamp16(TruncDiv(out, 100))>> \o BiquadRun(c, Tail(xs), n1, n2)

\* Butterworth high-pass, 80 Hz at 16 kHz: b = 0.978, -1.956, 0.978; a = -1.956, 0.957
HighPassCoeffs == [b0 |-> 98, b1 |-> -196, b2 |-> 98, a1 |-> -196, a2 |-> 96]

\* Butterworth low-pass at 0.9 * dst_rate / 2 for the sampling rate src_rate
\* (detector.rs:56-64), for the rate pairs of the model with a ratio above 1.
\* 48 kHz to 16 kHz: b = 0.131, 0.262, 0.131; a = -0.748, 0.272
LowPassCoeffs(src_rate, dst_rate) ==
    CASE src_rate = 3 * dst_rate -> [b0 |-> 13, b1 |-> 26, b2 |-> 13, a1 |-> -75, a2 |-> 27]
      [] src_rate = 2 * dst_rate -> [b0 |-> 25, b1 |-> 50, b2 |-> 25, a1 |-> -18, a2 |-> 18]
      [] src_rate = 4 * dst_rate -> [b0 |-> 8, b1 |-> 16, b2 |-> 8, a1 |-> -104, a2 |-> 37]

highpass_filter(samples) == BiquadRun(HighPassCoeffs, samples, 0, 0)

\* mutant: only a slice with rms < 10 counts as silence
normalize_floor10(samples) ==
    LET n      == Len(samples)
        sum_sq == SumSq(samples)
    IN  IF n = 0 THEN samples
        ELSE IF sum_sq < 100 * n THEN samples
        ELSE LET rms10 == Isqrt((sum_sq * 100) \div n)
             IN  [i \in 1..n |->
                    IF sum_sq <= 90000 * n
                    THEN Clamp16(samples[i] * 10)
                    ELSE Clamp16(TruncDiv(samples[i] * 30000, rms10))]

\* mutant: the gain is capped at 5
normalize_cap5(samples) ==
    LET n      == Len(samples)
        sum_sq == SumSq(samples)
    IN  IF n = 0 THEN samples
        ELSE IF sum_sq < 10000 * n THEN samples
        ELSE LET rms10 == Isqrt((sum_sq * 100) \div n)
             IN  [i \in 1..n |->
                    IF sum_sq <= 360000 * n
                    THEN Clamp16(samples[i] * 5)
                    ELSE Clamp16(TruncDiv(samples[i] * 30000, rms10))]

\* rms < 100.0 returns early; an empty slice has rms = NaN, for which the
\* comparison is false and the loop body never runs
normalize(samples) ==
    LET n      == Len(samples)
        sum_sq == SumSq(samples)
    IN  IF n = 0 THEN samples
        ELSE IF sum_sq < 10000 * n THEN samples
        ELSE LET rms10 == Isqrt((sum_sq * 100) \div n)   \* rms in tenths
             IN  [i \in 1..n |->
                    IF sum_sq <= 90000 * n
                    THEN Clamp16(samples[i] * 10)
                    ELSE Clamp16(TruncDiv(samples[i] * 30000, rms10))]

\* highpass_filter followed by normalize, as both run_detector and
\* process_audio apply them to a chunk
Condition(chunk) == normalize(highpass_filter(chunk))

\* ------------------------------------------------------------------------
\* Rate / channel converter (detector.rs)
\* ------------------------------------------------------------------------

\* chunks_exact(ch): whole frames only, a trailing partial frame is dropped
Frames(samples, ch) ==
    [f \in 1..(Len(samples) \div ch) |-> SubSeq(samples, (f - 1) * ch + 1, f * ch)]

\* mutant: the average is rounded down
Downmix_floor(samples, ch) ==
    LET fr == Frames(samples, ch)
    IN  [f \in 1..Len(fr) |-> SumSeq(fr[f]) \div ch]

\* detector.rs:41-47
Downmix(samples, ch) ==
    LET fr == Frames(samples, ch)
    IN  [f \in 1..Len(fr) |-> TruncDiv(SumSeq(fr[f]), ch)]

\* mutant: only whole groups of ratio elements yield one
StepBy_whole(s, ratio) ==
    [k \in 1..(Len(s) \div ratio) |-> s[(k - 1) * ratio + 1]]

\* Iterator::step_by(ratio): elements 0, ratio, 2*ratio, ...
StepBy(s, ratio) ==
    [k \in 1..((Len(s) + ratio - 1) \div ratio) |-> s[(k - 1) * ratio + 1]]

\* mutant: equal rates are filtered and decimated too
stereo_to_mono_and_downsample_lt(samples, channels, src_rate, dst_rate) ==
    LET mono  == Downmix(samples, channels)
        ratio == src_rate \div dst_rate
    IN  IF ratio < 1 THEN mono
        ELSE StepBy(BiquadRun([b0 |-> 13, b1 |-> 26, b2 |-> 13, a1 |-> -75, a2 |-> 27],
                              mono, 0, 0), ratio)

\* detector.rs:39-75
stereo_to_mono_and_downsample(samples, channels, src_rate, dst_rate) ==
    LET mono  == Downmix(samples, channels)
        ratio == src_rate \div dst_rate
    IN  IF ratio <= 1 THEN mono
        ELSE StepBy(BiquadRun(LowPassCoeffs(src_rate, dst_rate), mono, 0, 0), ratio)

\* ------------------------------------------------------------------------
\* Text: a string is a sequence of characters
\* ------------------------------------------------------------------------

UpperCase == {"L", "U", "K", "O", "I"}

\* char::to_lowercase on the characters of the model
LowerChar(c) ==
    CASE c = "L" -> "l"
      [] c = "U" -> "u"
      [] c = "K" -> "k"
      [] c = "O" -> "o"
      [] c = "I" -> "i"
      [] OTHER   -> c

\* str::to_lowercase
to_lowercase(text) == [i \in 1..Len(text) |-> LowerChar(text[i])]

\* str::contains(&str)
contains(text, pat) ==
    \E i \in 1..(Len(text) - Len(pat) + 1) : SubSeq(text, i, i + Len(pat) - 1) = pat

\* str::split_whitespace: the maximal runs of non-blank characters
RECURSIVE SplitFrom(_, _)
SplitFrom(text, cur) ==
    IF text = <<>> THEN (IF cur = <<>> THEN <<>> ELSE <<cur>>)
    ELSE IF Head(text) = " "
         THEN (IF cur = <<>> THEN <<>> ELSE <<cur>>) \o SplitFrom(Tail(text), <<>>)
         ELSE SplitFrom(Tail(text), Append(cur, Head(text)))

split_whitespace(text) == SplitFrom(text, <<>>)

\* strsim::generic_jaro, the matching pass: for each element of a in order,
\* the first unflagged equal element of b inside the search range is flagged.
\* Yields the flagged positions of a and of b.
RECURSIVE JaroScan(_, _, _, _, _)
JaroScan(a, b, i, a_flags, b_flags) ==
    IF i > Len(a) THEN [a_flags |-> a_flags, b_flags |-> b_flags]
    ELSE LET search_range == Max(0, (Max(Len(a), Len(b)) \div 2) - 1)
             lo == Max(1, i - search_range)
             hi == Min(Len(b), i + search_range)
             J  == {j \in lo..hi : b[j] = a[i] /\ j \notin b_flags}
         IN  IF J = {} THEN JaroScan(a, b, i + 1, a_flags, b_flags)
             ELSE LET j == CHOOSE x \in J : \A y \in J : x <= y
                  IN  JaroScan(a, b, i + 1, a_flags \cup {i}, b_flags \cup {j})

\* the elements of s at the positions in idx, in order
RECURSIVE Pick(_, _, _)
Pick(s, idx, i) ==
    IF i > Len(s) THEN <<>>
    ELSE (IF i \in idx THEN <<s[i]>> ELSE <<>>) \o Pick(s, idx, i + 1)

\* strsim::generic_jaro as the fraction num / den (den = 0 stands for 0.0)
Jaro(a, b) ==
    IF Len(a) = 0 /\ Len(b) = 0 THEN [num |-> 1, den |-> 1]
    ELSE IF Len(a) = 0 \/ Len(b) = 0 THEN [num |-> 0, den |-> 1]
    ELSE LET f  == JaroScan(a, b, 1, {}, {})
             m  == Cardinality(f.a_flags)
             ma == Pick(a, f.a_flags, 1)
             mb == Pick(b, f.b_flags, 1)
             t  == Cardinality({k \in 1..m : ma[k] # mb[k]}) \div 2
         IN  IF m = 0 THEN [num |-> 0, den |-> 1]
             ELSE [num |-> m * m * Len(b) + m * m * Len(a) + (m - t) * Len(a) * Len(b),
                   den |-> 3 * Len(a) * Len(b) * m]

\* length of the common prefix, at most 4
RECURSIVE CommonPrefix(_, _, _)
CommonPrefix(a, b, n) ==
    IF n = 0 \/ a = <<>> \/ b = <<>> \/ Head(a) # Head(b) THEN 0
    ELSE 1 + CommonPrefix(Tail(a), Tail(b), n - 1)

\* strsim::jaro_winkler(a, b) >= threshold / 100
JaroWinklerAtLeast(a, b, threshold) ==
    LET j == Jaro(a, b)
        p == CommonPrefix(a, b, 4)
    IN  IF 10 * j.num > 7 * j.den
        THEN 100 * (10 * j.num + p * (j.den - j.num)) >= threshold * 10 * j.den
        ELSE 100 * j.num >= threshold * j.den

\* ------------------------------------------------------------------------
\* Keyword matcher (audio.rs)
\* ------------------------------------------------------------------------

\* mutant: short keywords are compared like the others
fuzzy_match_any_length(text, keyword) ==
    LET words == split_whitespace(text)
    IN  \E w \in 1..Len(words) : JaroWinklerAtLeast(words[w], keyword, FUZZY_THRESHOLD)

\* audio.rs:90-96
fuzzy_match(text, keyword) ==
    IF Len(keyword) < 3 THEN FALSE
    ELSE LET words == split_whitespace(text)
         IN  \E w \in 1..Len(words) : JaroWinklerAtLeast(words[w], keyword, FUZZY_THRESHOLD)

\* the loop `for &keyword in keywords { if hit { return Some(keyword) } }`:
\* the first keyword, in list order, whose entry in hits is true
FirstKeyword(keywords, hits) ==
    LET I == {i \in 1..Len(keywords) : hits[i]}
    IN  IF I = {} THEN None
        ELSE Some(keywords[CHOOSE i \in I : \A j \in I : i <= j])

\* mutant: no early return on an empty text
check_keywords_matched_no_guard(text, keywords) ==
    LET text_lower == to_lowercase(text)
    IN  FirstKeyword(keywords,
            [i \in 1..Len(keywords) |->
                contains(text_lower, keywords[i]) \/ fuzzy_match(text_lower, keywords[i])])

\* audio.rs:60-72
\* mutant: only the fuzzy test is made
check_keywords_matched_fuzzy_only(text, keywords) ==
    IF text = <<>> THEN None
    ELSE LET text_lower == to_lowercase(text)
         IN  FirstKeyword(keywords,
                 [i \in 1..Len(keywords) |-> fuzzy_match(text_lower, keywords[i])])

check_keywords_matched(text, keywords) ==
    IF text = <<>> THEN None
    ELSE LET text_lower == to_lowercase(text)
         IN  FirstKeyword(keywords,
                 [i \in 1..Len(keywords) |->
                     contains(text_lower, keywords[i]) \/ fuzzy_match(text_lower, keywords[i])])

\* mutant: the text is searched as it is, not lowercased
check_keywords_exact_as_is(text, keywords) ==
    IF text = <<>> THEN None
    ELSE FirstKeyword(keywords, [i \in 1..Len(keywords) |-> contains(text, keywords[i])])

\* audio.rs:76-87
check_keywords_exact(text, keywords) ==
    IF text = <<>> THEN None
    ELSE LET text_lower == to_lowercase(text)
         IN  FirstKeyword(keywords,
                 [i \in 1..Len(keywords) |-> contains(text_lower, keywords[i])])

\* ------------------------------------------------------------------------
\* Inputs
\* ------------------------------------------------------------------------

\* the i-th raw sample the transport delivers (i from 1): blocks of loud
\* and of near-silent samples, all different inside a window
RawAt(i) ==
    LET b == ((i * 37) % 41) - 20
    IN  IF (i \div 6) % 2 = 0 THEN b * 50 ELSE b

RawSlice(from, n) == [k \in 1..n |-> RawAt(from + k)]

\* sizes, in samples, of the buffers the transport delivers: less than a
\* frame, one decimation period of stereo frames, and more than one
PushSizes == {1, 6, 8}

\* the keywords handed to run_detector (the words of the daemon's mappings)
ConfiguredKeywords == << <<"L", "u", "c", "a", "s">>, <<"o", "i">>, <<"l", "u", "c", "a", "s">> >>

\* audio.rs:8  KEYWORDS, used by src/main.rs
KEYWORDS ==
    << <<"o", "l", "a_acute">>, <<"o", "l", "a">>, <<"o", "i">>, <<"l", "u", "c", "a", "s">> >>

\* the placeholder token of the grammar
UNK == <<"[", "u", "n", "k", "]">>

\* transcripts the recognizer may return
Texts ==
    { <<>>,
      UNK,
      <<"o", "i", " ", "l", "u", "c", "a", "s">>,
      <<"L", "u", "k", "a", "s">>,
      <<"o", "i">>,
      <<"o", "k">> }

\* vosk::DecodingState
DecodingStates == {"Running", "Finalized", "Failed"}

\* sample values at and around the ends of the i16 range and zero
SampleValues == {I16_MIN, -3, -1, 0, 2, I16_MAX}

\* the sample slices handed to the converter: every slice of one or two
\* extreme values, and the first n delivered samples for every n
ConvertSamples ==
    {RawSlice(0, n) : n \in 0..MaxSamples}
        \cup {<<a>> : a \in SampleValues}
        \cup {<<a, b>> : a, b \in SampleValues}

\* arguments of stereo_to_mono_and_downsample; rates in units of 16000 Hz
ConvertInputs ==
    [fn : {"convert"}, samples : ConvertSamples, channels : {1, 2},
     src_rate : 1..4, dst_rate : 1..2]

\* texts handed to the matchers
MatchTexts ==
    Texts \cup { <<"o">>, <<"O", "I">>, <<"l", "u", "c", "a", "s", " ", "o", "i">>,
                 <<"o", "i", " ", "l", "u", "k", "a", "s">> }

\* keyword lists handed to the matchers: those of the two programs, a list
\* in another order, one with an empty keyword, one with a capital letter
KeywordLists ==
    { <<>>,
      << <<"l", "u", "c", "a", "s">>, <<"o", "i">> >>,
      << <<"o", "i">>, <<"l", "u", "c", "a", "s">> >>,
      << <<>>, <<"o", "i">> >>,
      << <<"L", "u", "c", "a", "s">>, <<"o", "k">> >>,
      KEYWORDS }

\* arguments of check_keywords_matched and check_keywords_exact
MatchInputs == [fn : {"match"}, text : MatchTexts, keywords : KeywordLists]

\* amplitudes around the silence threshold (rms 100), around the rms at
\* which the gain reaches its cap (300), and above
Amplitudes == {0, 30, 99, 100, 101, 299, 300, 301, 1000, 2600}

\* a slice that is silent but for one loud sample
Spike(a) == [i \in 1..SpikeLen |-> IF i = 1 THEN a ELSE 0]

\* slices handed to normalize
NormalizeSlices ==
    {<<>>, Spike(4000), Spike(-4000), Spike(900)}
        \cup {<<a>> : a \in Amplitudes}
        \cup {<<a, -a, a>> : a \in Amplitudes}
        \cup {<<a, 0, -a>> : a \in Amplitudes}
        \cup {<<a, a \div 2>> : a \in Amplitudes}

NormalizeInputs == [fn : {"normalize"}, samples : NormalizeSlices]

\* ------------------------------------------------------------------------
\* run_detector: set-up
\* ------------------------------------------------------------------------

\* mutant: a keyword met again takes the place of its first occurrence
RECURSIVE UniqueFrom_keep_last(_, _)
UniqueFrom_keep_last(keywords, acc) ==
    IF keywords = <<>> THEN acc
    ELSE LET lower == to_lowercase(Head(keywords))
             rest  == SelectSeq(acc, LAMBDA k : k # lower)
         IN  UniqueFrom_keep_last(Tail(keywords), Append(rest, lower))

\* detector.rs:98-105: lowercase, keep the first occurrence of each keyword
RECURSIVE UniqueFrom(_, _)
UniqueFrom(keywords, acc) ==
    IF keywords = <<>> THEN acc
    ELSE LET lower == to_lowercase(Head(keywords))
         IN  IF \E i \in 1..Len(acc) : acc[i] = lower
             THEN UniqueFrom(Tail(keywords), acc)
             ELSE UniqueFrom(Tail(keywords), Append(acc, lower))

unique_keywords == UniqueFrom(ConfiguredKeywords, <<>>)

\* detector.rs:108-112
grammar == Append(unique_keywords, UNK)

\* ------------------------------------------------------------------------
\* Deduplicator (detector.rs, try_emit_match)
\* ------------------------------------------------------------------------

\* mutant: the cooldown holds for every keyword
is_dup_any_keyword(keyword, last, t) ==
    IF last # None
    THEN t - last[1].time < DEDUP_COOLDOWN_SECS
    ELSE FALSE

\* mutant: the cooldown is one second short
is_dup_short(keyword, last, t) ==
    IF last # None
    THEN last[1].kw = keyword /\ t - last[1].time < DEDUP_COOLDOWN_SECS - 1
    ELSE FALSE

\* detector.rs:377-384; last is Option<(String, Instant)>, t is Instant::now()
is_dup(keyword, last, t) ==
    IF last # None
    THEN last[1].kw = keyword /\ t - last[1].time < DEDUP_COOLDOWN_SECS
    ELSE FALSE

\* mutant: the slot is set by the first event only
try_emit_match_first_only(keyword, last, t) ==
    IF ~is_dup(keyword, last, t)
    THEN [on_match |-> <<keyword>>,
          last_match |-> IF last = None THEN Some([kw |-> keyword, time |-> t]) ELSE last]
    ELSE [on_match |-> <<>>, last_match |-> last]

\* mutant: a suppressed duplicate refreshes the timestamp of the slot
try_emit_match_refresh(keyword, last, t) ==
    IF ~is_dup(keyword, last, t)
    THEN [on_match |-> <<keyword>>, last_match |-> Some([kw |-> keyword, time |-> t])]
    ELSE [on_match |-> <<>>, last_match |-> Some([kw |-> keyword, time |-> t])]

\* detector.rs:369-395: the keywords passed to on_match and the dedup slot
\* after the call
\* mutant: the callback is invoked twice for a keyword that passes
try_emit_match_twice(keyword, last, t) ==
    IF ~is_dup(keyword, last, t)
    THEN [on_match |-> <<keyword, keyword>>, last_match |-> Some([kw |-> keyword, time |-> t])]
    ELSE [on_match |-> <<>>, last_match |-> last]

try_emit_match(keyword, last, t) ==
    IF ~is_dup(keyword, last, t)
    THEN [on_match |-> <<keyword>>, last_match |-> Some([kw |-> keyword, time |-> t])]
    ELSE [on_match |-> <<>>, last_match |-> last]

\* ------------------------------------------------------------------------
\* Recognition-result interpreter (detector.rs, timer callback)
\* ------------------------------------------------------------------------

NoMatch == [matcher |-> "none", hit |-> None, tag |-> "none"]

\* mutant: final text is matched with the exact matcher
InterpretFull_exact(state, text, keywords) ==
    IF text # <<>> /\ text # UNK
    THEN [matcher |-> "exact", hit |-> check_keywords_exact(text, keywords),
          tag |-> IF state = "Finalized" THEN "final" ELSE "partial"]
    ELSE NoMatch

\* detector.rs:273-311: a full chunk.  text is final_result() when the state
\* is Finalized and partial_result() otherwise
InterpretFull(state, text, keywords) ==
    IF state = "Finalized"
    THEN IF text # <<>> /\ text # UNK
         THEN [matcher |-> "matched", hit |-> check_keywords_matched(text, keywords),
               tag |-> "final"]
         ELSE NoMatch
    ELSE IF text # <<>> /\ text # UNK
         THEN [matcher |-> "exact", hit |-> check_keywords_exact(text, keywords),
               tag |-> "partial"]
         ELSE NoMatch

\* mutant: a tail that is not Finalized is matched on its partial text
InterpretTail_partial(state, text, keywords) ==
    IF text # <<>> /\ text # UNK
    THEN IF state = "Finalized"
         THEN [matcher |-> "matched", hit |-> check_keywords_matched(text, keywords),
               tag |-> "tail"]
         ELSE [matcher |-> "exact", hit |-> check_keywords_exact(text, keywords),
               tag |-> "partial"]
    ELSE NoMatch

\* detector.rs:328-344: a tail chunk
InterpretTail(state, text, keywords) ==
    IF state = "Finalized"
    THEN IF text # <<>> /\ text # UNK
         THEN [matcher |-> "matched", hit |-> check_keywords_matched(text, keywords),
               tag |-> "tail"]
         ELSE NoMatch
    ELSE NoMatch

\* the interpreter on every outcome of the recognizer, for the keywords of the run
FullOutcome ==
    [state \in DecodingStates |-> [text \in Texts |-> InterpretFull(state, text, unique_keywords)]]

TailOutcome ==
    [state \in DecodingStates |-> [text \in Texts |-> InterpretTail(state, text, unique_keywords)]]

\* ------------------------------------------------------------------------
\* Chunker (detector.rs timer callback, main.rs process callback)
\* ------------------------------------------------------------------------

\* detector.rs:246, main.rs:146: mbuf[..CHUNK_SAMPLES].to_vec()
TakeChunk(buf) == SubSeq(buf, 1, CHUNK_SAMPLES)

\* mutant: only OVERLAP_SAMPLES samples are drained
DrainAdvance_overlap(buf) == SubSeq(buf, OVERLAP_SAMPLES + 1, Len(buf))

\* mutant: the whole chunk is drained, no overlap is kept
DrainAdvance_chunk(buf) == SubSeq(buf, CHUNK_SAMPLES + 1, Len(buf))

\* detector.rs:247, main.rs:149: mbuf.drain(..advance)
DrainAdvance(buf) == SubSeq(buf, advance + 1, Len(buf))

\* mutant: a rest of exactly min_tail_samples is not long enough
TailCondition_strict(buf, min_tail_samples) ==
    buf # <<>> /\ Len(buf) > min_tail_samples /\ Len(buf) < CHUNK_SAMPLES

\* detector.rs:318
TailCondition(buf, min_tail_samples) ==
    buf # <<>> /\ Len(buf) >= min_tail_samples /\ Len(buf) < CHUNK_SAMPLES

\* mutant: the tail is not resized
BuildTail_unpadded(buf) == buf

\* mutant: the silence is put in front of the samples
BuildTail_front(buf) ==
    [i \in 1..CHUNK_SAMPLES |->
        IF i <= CHUNK_SAMPLES - Len(buf) THEN 0 ELSE buf[i - (CHUNK_SAMPLES - Len(buf))]]

\* detector.rs:319-320
BuildTail(buf) == ResizeZero(buf, CHUNK_SAMPLES)

\* mutant: the tail branch drains what it fed
AfterTail_drained(buf) == <<>>

\* detector.rs:346: the tail branch leaves mbuf as it is
AfterTail(buf) == buf

\* ------------------------------------------------------------------------
\* src/main.rs: process_audio and check_keywords
\* ------------------------------------------------------------------------

\* main.rs:208-218: the events sent for a text
check_keywords(text) ==
    LET m == check_keywords_matched(text, KEYWORDS)
    IN  IF m # None THEN <<[keyword |-> m[1], text |-> text]>> ELSE <<>>

\* main.rs:164-204: the events sent, the text they were found in and the
\* number of recognizer resets, for a decoding state and the two transcripts
process_audio(state, partial, final) ==
    IF state = "Running"
    THEN IF check_keywords(partial) # <<>>
         THEN [events |-> check_keywords(partial), tag |-> "partial", text |-> partial,
               resets |-> 1]
         ELSE [events |-> check_keywords(final), tag |-> "final", text |-> final,
               resets |-> 1]
    ELSE IF state = "Finalized"
    THEN [events |-> check_keywords(final), tag |-> "final", text |-> final, resets |-> 1]
    ELSE [events |-> <<>>, tag |-> "none", text |-> <<>>, resets |-> 1]

\* process_audio on every outcome of the recognizer
MainOutcome ==
    [state \in DecodingStates |->
        [partial \in Texts |-> [final \in Texts |-> process_audio(state, partial, final)]]]

\* ------------------------------------------------------------------------
\* State
\* ------------------------------------------------------------------------

VARIABLES
    entry,              \* the program that runs: "detector" (run_detector) or "main" (src/main.rs)
    MIN_TAIL_SAMPLES,   \* constant of crate::audio, imported at detector.rs:3; its value is
                        \* not in the sources, so every value of MIN_TAIL_SAMPLES_RANGE is tried
    audio_buf,          \* detector.rs:139  raw PCM shared by the process and timer callbacks
    raw,                \* detector.rs:236  the samples drained by a callback that still holds
                        \* the lock of audio_buf
    drained,            \* history: every sample drained from audio_buf, in order
    mono_buf,           \* detector.rs:206  accumulation buffer (main.rs:118  ring)
    chunk_count,        \* detector.rs:207 (main.rs keeps no count: history there)
    last_match,         \* detector.rs:209  Option<(keyword, Instant)>
    stop_flag,          \* detector.rs:196
    stop_rx,            \* detector.rs:89  the stop channel: "open", "sent" (a message waits),
                        \* "closed" (the sender was dropped), "done" (the watcher returned)
    input,              \* the arguments of a library function called on its own
    pc,                 \* position of the run: a stage of StartupStages, "error" (run_detector
                        \* returned Err), "idle", "locked", "chunks", or "exited" (mainloop quit)
    now,                \* the clock, in seconds
    raw_pos,            \* number of raw samples delivered so far
    n_process,          \* number of process callbacks so far
    mono_stream,        \* history: every mono sample appended to mono_buf, in order
    prev_chunk,         \* history: the last full chunk taken from mono_buf
    tails_since_full,   \* history: tail chunks fed since the last full chunk
    last_event,         \* history: the last on_match call, Option<(keyword, time)>
    last_emit,          \* history: per keyword, the time of its last on_match call
    tick,               \* history: what the current (or last) callback run did
    step,               \* history: what the last step did
    app,                \* app.rs:96-100  the daemon's DaemonApp: word_detector_status,
                        \* word_mappings, detector_stop_tx, detector_match_rx
    runs,               \* app.rs:494  the detector threads spawned so far, with the two
                        \* channels of each
    daemon_step         \* history: what poll_detector_matches did, when it was the last step

vars == <<entry, MIN_TAIL_SAMPLES, audio_buf, raw, drained, mono_buf, chunk_count, last_match, stop_flag,
          stop_rx, input, pc, now, raw_pos, n_process, mono_stream, prev_chunk, tails_since_full,
          last_event, last_emit, tick, step, app, runs, daemon_step>>

\* the state of one detector run, as the earlier sections model it
detector_vars ==
    <<entry, MIN_TAIL_SAMPLES, audio_buf, raw, drained, mono_buf, chunk_count, last_match,
      stop_flag, stop_rx, input, pc, now, raw_pos, n_process, mono_stream, prev_chunk,
      tails_since_full, last_event, last_emit, tick, step>>

KeywordSet == {unique_keywords[i] : i \in 1..Len(unique_keywords)}

NoStep ==
    [op         |-> "none",    \* the step taken
     kind       |-> "none",    \* "full" or "tail": the chunk built in this step
     index      |-> 0,         \* number of full chunks taken before this one
     chunk      |-> <<>>,      \* the chunk as taken from the buffer
     fed        |-> <<>>,      \* the windows handed to accept_waveform
     state      |-> "none",    \* the decoding state returned
     text       |-> <<>>,      \* the transcript read
     tag        |-> "none",    \* source tag of the match attempt
     matcher    |-> "none",    \* the matcher called
     hit        |-> None,      \* the matcher's result
     on_match   |-> <<>>,      \* the keywords passed to on_match (main.rs: sent on tx)
     resets     |-> 0,         \* calls of Recognizer::reset
     prev_event |-> None,      \* last_event before the step
     prev_same  |-> None,      \* last_emit of the hit keyword before the step
     prev_chunk |-> None,      \* prev_chunk before the step
     buf_before |-> <<>>,      \* mono_buf before the step
     args       |-> <<>>,      \* the arguments of a library function called on its own
     result     |-> <<>>]      \* and what it returned

\* The values tried for MIN_TAIL_SAMPLES: a threshold below CHUNK_SAMPLES, so
\* that the interval [MIN_TAIL_SAMPLES, CHUNK_SAMPLES) of tail lengths is not
\* empty
MIN_TAIL_SAMPLES_RANGE == 1..(CHUNK_SAMPLES - 1)

\* no library function is called on its own
NoInput == [fn |-> "none"]

NoTick == [start_len |-> 0, new_len |-> 0, fed |-> <<>>]

\* app.rs:152-158: no mapping, no detector
NoApp ==
    [word_detector_status |-> "Unavailable",
     word_mappings        |-> <<>>,
     detector_stop_tx     |-> None,
     detector_match_rx    |-> None]

NoDaemonStep ==
    [op     |-> "none",    \* "poll" when the last step was poll_detector_matches
     words  |-> <<>>,      \* poll_detector_matches: the words received, each with its run
     events |-> <<>>,      \* poll_detector_matches: the WordDetected events returned
     played |-> <<>>]      \* poll_detector_matches: the mappings whose song was played

Init ==
    /\ entry \in {"detector", "main"}
    /\ MIN_TAIL_SAMPLES \in MIN_TAIL_SAMPLES_RANGE
    /\ audio_buf = <<>>
    /\ raw = <<>>
    /\ drained = <<>>
    /\ mono_buf = <<>>
    /\ chunk_count = 0
    /\ last_match = None
    /\ stop_flag = FALSE
    /\ stop_rx = "open"
    /\ input = NoInput
    /\ pc = "idle"
    /\ now = 0
    /\ raw_pos = 0
    /\ n_process = 0
    /\ mono_stream = <<>>
    /\ prev_chunk = None
    /\ tails_since_full = 0
    /\ last_event = None
    /\ last_emit = [k \in KeywordSet |-> None]
    /\ tick = NoTick
    /\ step = NoStep
    /\ app = NoApp
    /\ runs = <<>>
    /\ daemon_step = NoDaemonStep

\* ------------------------------------------------------------------------
\* Environment
\* ------------------------------------------------------------------------

\* detector.rs:93-192: the fallible steps of the set-up, in the order of the
\* code; each ends in `?`
StartupStages ==
    << "model",       \* :95   Model::new
       "recognizer",  \* :114  Recognizer::new_with_grammar
       "mainloop",    \* :118  MainLoop::new
       "context",     \* :119  PwContext::new
       "core",        \* :120  context.connect
       "stream",      \* :127  Stream::new
       "listener",    \* :167  register
       "params",      \* :181-185  the format parameter
       "connect" >>   \* :187  stream.connect

StageSet == {StartupStages[i] : i \in 1..Len(StartupStages)}

StageIndex(stage) == CHOOSE i \in 1..Len(StartupStages) : StartupStages[i] = stage

\* the position after a stage that succeeded; after the last one the
\* callbacks are installed and the mainloop runs
AfterStage(stage) ==
    IF StageIndex(stage) < Len(StartupStages) THEN StartupStages[StageIndex(stage) + 1]
    ELSE "idle"

\* detector.rs:198: the watcher thread is spawned after the set-up
Spawned == pc \notin StageSet \cup {"error"}

\* detector.rs:89: the owner of the run sends the stop message, or drops the
\* sender, which closes the channel
SendStop ==
    /\ entry = "detector"
    /\ pc \notin {"exited", "error"}
    /\ stop_rx = "open"
    /\ stop_rx' \in {"sent", "closed"}
    /\ step' = [NoStep EXCEPT !.op = "stop"]
    /\ UNCHANGED <<raw, drained, input, app, runs, daemon_step,
                   entry, MIN_TAIL_SAMPLES, audio_buf, mono_buf, chunk_count, last_match,
                   stop_flag, pc, now, raw_pos, n_process, mono_stream, prev_chunk,
                   tails_since_full, last_event, last_emit, tick>>

\* mutant: the flag is stored only when a message was received
StopWatcher_message_only ==
    /\ entry = "detector"
    /\ Spawned
    /\ stop_rx = "sent"
    /\ stop_rx' = "done"
    /\ stop_flag' = TRUE
    /\ step' = [NoStep EXCEPT !.op = "watcher"]
    /\ UNCHANGED <<raw, drained, input, app, runs, daemon_step,
                   entry, MIN_TAIL_SAMPLES, audio_buf, mono_buf, chunk_count, last_match,
                   pc, now, raw_pos, n_process, mono_stream, prev_chunk,
                   tails_since_full, last_event, last_emit, tick>>

\* detector.rs:198-201: the watcher thread: recv() returns, with the message
\* or with the error of a closed channel, and the flag is stored
StopWatcher ==
    /\ entry = "detector"
    /\ Spawned
    /\ stop_rx \in {"sent", "closed"}
    /\ stop_rx' = "done"
    /\ stop_flag' = TRUE
    /\ step' = [NoStep EXCEPT !.op = "watcher"]
    /\ UNCHANGED <<raw, drained, input, app, runs, daemon_step,
                   entry, MIN_TAIL_SAMPLES, audio_buf, mono_buf, chunk_count, last_match,
                   pc, now, raw_pos, n_process, mono_stream, prev_chunk,
                   tails_since_full, last_event, last_emit, tick>>

\* mutant: a failed stage is tried again
Startup_retry ==
    /\ entry = "detector"
    /\ pc \in StageSet
    /\ \E ok \in BOOLEAN :
        /\ pc' = IF ok THEN AfterStage(pc) ELSE pc
        /\ step' = [NoStep EXCEPT !.op = "startup", !.args = <<pc>>,
                                  !.result = IF ok THEN "Ok" ELSE "Err"]
    /\ UNCHANGED <<raw, drained, stop_rx, input, app, runs, daemon_step,
                   entry, MIN_TAIL_SAMPLES, audio_buf, mono_buf, chunk_count, last_match,
                   stop_flag, now, raw_pos, n_process, mono_stream, prev_chunk,
                   tails_since_full, last_event, last_emit, tick>>

\* detector.rs:93-192: one stage of the set-up: it succeeds, or `?` returns
\* its error from run_detector
Startup ==
    /\ entry = "detector"
    /\ pc \in StageSet
    /\ \E ok \in BOOLEAN :
        /\ pc' = IF ok THEN AfterStage(pc) ELSE "error"
        /\ step' = [NoStep EXCEPT !.op = "startup", !.args = <<pc>>,
                                  !.result = IF ok THEN "Ok" ELSE "Err"]
    /\ UNCHANGED <<raw, drained, stop_rx, input, app, runs, daemon_step,
                   entry, MIN_TAIL_SAMPLES, audio_buf, mono_buf, chunk_count, last_match,
                   stop_flag, now, raw_pos, n_process, mono_stream, prev_chunk,
                   tails_since_full, last_event, last_emit, tick>>

\* mutant: the delivered samples are put in front of the waiting ones
Process_in_front ==
    /\ entry = "detector"
    /\ pc \in {"idle", "chunks"}
    /\ n_process < MaxPushes
    /\ \E n \in PushSizes :
        /\ audio_buf' = RawSlice(raw_pos, n) \o audio_buf
        /\ raw_pos' = raw_pos + n
    /\ n_process' = n_process + 1
    /\ step' = [NoStep EXCEPT !.op = "process"]
    /\ UNCHANGED <<raw, drained, stop_rx, input, app, runs, daemon_step,
                   entry, MIN_TAIL_SAMPLES, mono_buf, chunk_count, last_match, stop_flag,
                   pc, now, mono_stream, prev_chunk, tails_since_full, last_event,
                   last_emit, tick>>

\* detector.rs:145-166: the process callback appends the delivered samples
\* to the shared buffer; lock() at detector.rs:162 waits while the timer
\* callback holds the lock
Process ==
    /\ entry = "detector"
    /\ pc \in {"idle", "chunks"}
    /\ n_process < MaxPushes
    /\ \E n \in PushSizes :
        /\ audio_buf' = audio_buf \o RawSlice(raw_pos, n)
        /\ raw_pos' = raw_pos + n
    /\ n_process' = n_process + 1
    /\ step' = [NoStep EXCEPT !.op = "process"]
    /\ UNCHANGED <<raw, drained, stop_rx, input, app, runs, daemon_step,
                   entry, MIN_TAIL_SAMPLES, mono_buf, chunk_count, last_match, stop_flag,
                   pc, now, mono_stream, prev_chunk, tails_since_full, last_event,
                   last_emit, tick>>

\* ------------------------------------------------------------------------
\* run_detector: the timer callback (detector.rs:220-348)
\* ------------------------------------------------------------------------

\* mutant: on_match is called for every hit, whatever the dedup slot holds
Emit_every_hit(hit, last, t) ==
    IF hit # None
    THEN [on_match |-> <<hit[1]>>, last_match |-> Some([kw |-> hit[1], time |-> t])]
    ELSE [on_match |-> <<>>, last_match |-> last]

\* `if let Some(keyword) = hit { try_emit_match(..) }`
Emit(hit, last, t) ==
    IF hit # None THEN try_emit_match(hit[1], last, t)
    ELSE [on_match |-> <<>>, last_match |-> last]

\* the history of on_match calls after a call of try_emit_match at time t
EventAfter(on_match, t) ==
    IF on_match # <<>> THEN Some([kw |-> on_match[1], time |-> t]) ELSE last_event

EmitAfter(on_match, t) ==
    IF on_match # <<>> THEN [last_emit EXCEPT ![on_match[1]] = Some(t)] ELSE last_emit

\* the record of a step that fed a chunk to the recognizer
FeedStep(op, kind, chunk, processed, state, text, r, e) ==
    [NoStep EXCEPT
        !.op = op, !.kind = kind, !.index = chunk_count, !.chunk = chunk,
        !.fed = <<processed>>, !.state = state, !.text = text, !.tag = r.tag,
        !.matcher = r.matcher, !.hit = r.hit, !.on_match = e.on_match,
        !.prev_event = last_event,
        !.prev_same = IF r.hit # None THEN last_emit[r.hit[1]] ELSE None,
        !.prev_chunk = prev_chunk,
        !.buf_before = mono_buf]

\* mutant: the callback that finds the flag set takes the waiting samples
\* out of the shared buffer before it quits
TimerStop_drains ==
    /\ entry = "detector"
    /\ pc = "idle"
    /\ stop_flag
    /\ pc' = "exited"
    /\ audio_buf' = <<>>
    /\ drained' = drained \o audio_buf
    /\ tick' = NoTick
    /\ step' = [NoStep EXCEPT !.op = "quit"]
    /\ UNCHANGED <<raw, stop_rx, input, app, runs, daemon_step,
                   entry, MIN_TAIL_SAMPLES, mono_buf, chunk_count, last_match,
                   stop_flag, now, raw_pos, n_process, mono_stream, prev_chunk,
                   tails_since_full, last_event, last_emit>>

\* detector.rs:221-226: the stop flag is set: quit the mainloop and return
TimerStop ==
    /\ entry = "detector"
    /\ pc = "idle"
    /\ stop_flag
    /\ pc' = "exited"
    /\ tick' = NoTick
    /\ step' = [NoStep EXCEPT !.op = "quit"]
    /\ UNCHANGED <<raw, drained, stop_rx, input, app, runs, daemon_step,
                   entry, MIN_TAIL_SAMPLES, audio_buf, mono_buf, chunk_count, last_match,
                   stop_flag, now, raw_pos, n_process, mono_stream, prev_chunk,
                   tails_since_full, last_event, last_emit>>

\* mutant: an empty drain goes on to the chunk loop and the tail branch
TimerEmpty_goes_on ==
    /\ entry = "detector"
    /\ pc = "idle"
    /\ ~stop_flag
    /\ audio_buf = <<>>
    /\ pc' = "chunks"
    /\ tick' = [start_len |-> Len(mono_buf), new_len |-> 0, fed |-> <<>>]
    /\ step' = [NoStep EXCEPT !.op = "empty"]
    /\ UNCHANGED <<raw, drained, stop_rx, input, app, runs, daemon_step,
                   entry, MIN_TAIL_SAMPLES, audio_buf, mono_buf, chunk_count, last_match,
                   stop_flag, now, raw_pos, n_process, mono_stream, prev_chunk,
                   tails_since_full, last_event, last_emit>>

\* detector.rs:232-235: nothing to drain: return
TimerEmpty ==
    /\ entry = "detector"
    /\ pc = "idle"
    /\ ~stop_flag
    /\ audio_buf = <<>>
    /\ tick' = NoTick
    /\ step' = [NoStep EXCEPT !.op = "empty"]
    /\ UNCHANGED <<raw, drained, stop_rx, input, app, runs, daemon_step,
                   entry, MIN_TAIL_SAMPLES, audio_buf, mono_buf, chunk_count, last_match,
                   stop_flag, pc, now, raw_pos, n_process, mono_stream, prev_chunk,
                   tails_since_full, last_event, last_emit>>

\* detector.rs:231-242: drain the shared buffer, convert, append to mono_buf
TimerDrain ==
    /\ entry = "detector"
    /\ pc = "idle"
    /\ ~stop_flag
    /\ audio_buf # <<>>
    /\ \E new_mono \in {stereo_to_mono_and_downsample(audio_buf, PW_CHANNELS,
                                                      PW_SAMPLE_RATE, VOSK_SAMPLE_RATE)} :
           /\ mono_buf' = mono_buf \o new_mono
           /\ mono_stream' = mono_stream \o new_mono
           /\ tick' = [start_len |-> Len(mono_buf), new_len |-> Len(new_mono), fed |-> <<>>]
    /\ audio_buf' = <<>>
    /\ drained' = drained \o audio_buf
    /\ pc' = "chunks"
    /\ step' = [NoStep EXCEPT !.op = "drain", !.buf_before = mono_buf]
    /\ UNCHANGED <<raw, stop_rx, input, app, runs, daemon_step,
                   entry, MIN_TAIL_SAMPLES, chunk_count, last_match, stop_flag, now, raw_pos,
                   n_process, prev_chunk, tails_since_full, last_event, last_emit>>

\* detector.rs:231-238: the same callback, one step per statement executed
\* with the lock of audio_buf.  `buf`, the guard, lives to the end of the
\* block that computes new_mono

\* detector.rs:232: the scope of the guard: the timer callback holds the lock
Locked == pc \in {"locked", "convert"}

\* detector.rs:221-232: the flag is not set; audio_buf.lock()
TimerLock ==
    /\ entry = "detector"
    /\ pc = "idle"
    /\ ~stop_flag
    /\ pc' = "locked"
    /\ tick' = NoTick
    /\ step' = [NoStep EXCEPT !.op = "lock"]
    /\ UNCHANGED <<raw, drained, stop_rx, input, app, runs, daemon_step,
                   entry, MIN_TAIL_SAMPLES, audio_buf, mono_buf, chunk_count, last_match,
                   stop_flag, now, raw_pos, n_process, mono_stream, prev_chunk,
                   tails_since_full, last_event, last_emit>>

\* detector.rs:233-235: nothing to drain: return, which drops the guard
TimerLockedEmpty ==
    /\ entry = "detector"
    /\ pc = "locked"
    /\ audio_buf = <<>>
    /\ pc' = "idle"
    /\ step' = [NoStep EXCEPT !.op = "empty"]
    /\ UNCHANGED <<raw, drained, stop_rx, input, app, runs, daemon_step,
                   entry, MIN_TAIL_SAMPLES, audio_buf, mono_buf, chunk_count, last_match,
                   stop_flag, now, raw_pos, n_process, mono_stream, prev_chunk,
                   tails_since_full, last_event, last_emit, tick>>

\* detector.rs:236: raw = buf.drain(..).collect(); the guard is still alive
TimerTake ==
    /\ entry = "detector"
    /\ pc = "locked"
    /\ audio_buf # <<>>
    /\ raw' = audio_buf
    /\ drained' = drained \o audio_buf
    /\ audio_buf' = <<>>
    /\ pc' = "convert"
    /\ step' = [NoStep EXCEPT !.op = "take", !.args = audio_buf]
    /\ UNCHANGED <<stop_rx, input, app, runs, daemon_step,
                   entry, MIN_TAIL_SAMPLES, mono_buf, chunk_count, last_match,
                   stop_flag, now, raw_pos, n_process, mono_stream, prev_chunk,
                   tails_since_full, last_event, last_emit, tick>>

\* detector.rs:237-242: stereo_to_mono_and_downsample(&raw, ..) is the value
\* of the block, so the guard is dropped after it returns; then new_mono is
\* appended to mono_buf
TimerConvert ==
    /\ entry = "detector"
    /\ pc = "convert"
    /\ \E new_mono \in {stereo_to_mono_and_downsample(raw, PW_CHANNELS,
                                                      PW_SAMPLE_RATE, VOSK_SAMPLE_RATE)} :
           /\ mono_buf' = mono_buf \o new_mono
           /\ mono_stream' = mono_stream \o new_mono
           /\ tick' = [start_len |-> Len(mono_buf), new_len |-> Len(new_mono), fed |-> <<>>]
           /\ step' = [NoStep EXCEPT !.op = "convert", !.args = raw, !.result = new_mono,
                                     !.buf_before = mono_buf]
    /\ raw' = <<>>
    /\ pc' = "chunks"
    /\ UNCHANGED <<drained, stop_rx, input, app, runs, daemon_step,
                   entry, MIN_TAIL_SAMPLES, audio_buf, chunk_count, last_match, stop_flag, now,
                   raw_pos, n_process, prev_chunk, tails_since_full, last_event, last_emit>>

\* detector.rs:245-313: one turn of the full-chunk loop
ChunkFull ==
    /\ entry = "detector"
    /\ pc = "chunks"
    /\ Len(mono_buf) >= CHUNK_SAMPLES
    /\ \E chunk \in {TakeChunk(mono_buf)} :
       \E processed \in {Condition(chunk)} :
       \E state \in DecodingStates, text \in Texts :
       \E r \in {FullOutcome[state][text]} :
       \E e \in {Emit(r.hit, last_match, now)} :
            /\ mono_buf' = DrainAdvance(mono_buf)
            /\ chunk_count' = chunk_count + 1
            /\ last_match' = e.last_match
            /\ prev_chunk' = Some(chunk)
            /\ last_event' = EventAfter(e.on_match, now)
            /\ last_emit' = EmitAfter(e.on_match, now)
            /\ tick' = [tick EXCEPT !.fed = Append(@, [kind |-> "full", chunk |-> chunk,
                                                     on_match |-> e.on_match])]
            /\ step' = FeedStep("chunk", "full", chunk, processed, state, text, r, e)
    /\ tails_since_full' = 0
    /\ UNCHANGED <<raw, drained, stop_rx, input, app, runs, daemon_step,
                   entry, MIN_TAIL_SAMPLES, audio_buf, stop_flag, pc, now, raw_pos,
                   n_process, mono_stream>>

\* detector.rs:318-347: the loop is over and the rest is long enough: pad it,
\* feed it, and return
TailFeed ==
    /\ entry = "detector"
    /\ pc = "chunks"
    /\ Len(mono_buf) < CHUNK_SAMPLES
    /\ TailCondition(mono_buf, MIN_TAIL_SAMPLES)
    /\ \E tail \in {BuildTail(mono_buf)} :
       \E processed \in {Condition(tail)} :
       \E state \in DecodingStates, text \in Texts :
       \E r \in {TailOutcome[state][text]} :
       \E e \in {Emit(r.hit, last_match, now)} :
            /\ mono_buf' = AfterTail(mono_buf)
            /\ last_match' = e.last_match
            /\ last_event' = EventAfter(e.on_match, now)
            /\ last_emit' = EmitAfter(e.on_match, now)
            /\ tick' = [tick EXCEPT !.fed = Append(@, [kind |-> "tail", chunk |-> tail,
                                                     on_match |-> e.on_match])]
            /\ step' = FeedStep("tail", "tail", tail, processed, state, text, r, e)
    /\ tails_since_full' = tails_since_full + 1
    /\ pc' = "idle"
    /\ UNCHANGED <<raw, drained, stop_rx, input, app, runs, daemon_step,
                   entry, MIN_TAIL_SAMPLES, audio_buf, chunk_count, stop_flag, now, raw_pos,
                   n_process, mono_stream, prev_chunk>>

\* mutant: the callback returns without a look at the length of the buffer
TailSkip_any_length ==
    /\ entry = "detector"
    /\ pc = "chunks"
    /\ ~TailCondition(mono_buf, MIN_TAIL_SAMPLES)
    /\ pc' = "idle"
    /\ step' = [NoStep EXCEPT !.op = "skip", !.buf_before = mono_buf]
    /\ UNCHANGED <<raw, drained, stop_rx, input, app, runs, daemon_step,
                   entry, MIN_TAIL_SAMPLES, audio_buf, mono_buf, chunk_count, last_match,
                   stop_flag, now, raw_pos, n_process, mono_stream, prev_chunk,
                   tails_since_full, last_event, last_emit, tick>>

\* detector.rs:318: the loop is over and the rest is too short: return
TailSkip ==
    /\ entry = "detector"
    /\ pc = "chunks"
    /\ Len(mono_buf) < CHUNK_SAMPLES
    /\ ~TailCondition(mono_buf, MIN_TAIL_SAMPLES)
    /\ pc' = "idle"
    /\ step' = [NoStep EXCEPT !.op = "skip", !.buf_before = mono_buf]
    /\ UNCHANGED <<raw, drained, stop_rx, input, app, runs, daemon_step,
                   entry, MIN_TAIL_SAMPLES, audio_buf, mono_buf, chunk_count, last_match,
                   stop_flag, now, raw_pos, n_process, mono_stream, prev_chunk,
                   tails_since_full, last_event, last_emit, tick>>

\* ------------------------------------------------------------------------
\* src/main.rs: the process callback of run_pipewire (main.rs:123-155)
\* ------------------------------------------------------------------------

\* main.rs:137-142: the delivered samples are appended to ring
MainProcess ==
    /\ entry = "main"
    /\ pc = "idle"
    /\ n_process < MaxPushes
    /\ \E n \in PushSizes :
        /\ mono_buf' = mono_buf \o RawSlice(raw_pos, n)
        /\ mono_stream' = mono_stream \o RawSlice(raw_pos, n)
        /\ raw_pos' = raw_pos + n
        /\ tick' = [start_len |-> Len(mono_buf), new_len |-> n, fed |-> <<>>]
    /\ n_process' = n_process + 1
    /\ pc' = "chunks"
    /\ step' = [NoStep EXCEPT !.op = "process", !.buf_before = mono_buf]
    /\ UNCHANGED <<raw, drained, stop_rx, input, app, runs, daemon_step,
                   entry, MIN_TAIL_SAMPLES, audio_buf, chunk_count, last_match, stop_flag,
                   now, prev_chunk, tails_since_full, last_event, last_emit>>

\* main.rs:145-152: one turn of the loop, with process_audio (main.rs:164-204)
MainChunk ==
    /\ entry = "main"
    /\ pc = "chunks"
    /\ Len(mono_buf) >= CHUNK_SAMPLES
    /\ \E chunk_data \in {TakeChunk(mono_buf)} :
       \E clean \in {Condition(chunk_data)} :
       \E state \in DecodingStates, partial \in Texts, final \in Texts :
       \E r \in {MainOutcome[state][partial][final]} :
            /\ mono_buf' = DrainAdvance(mono_buf)
            /\ prev_chunk' = Some(chunk_data)
            /\ tick' = [tick EXCEPT !.fed = Append(@, [kind |-> "full", chunk |-> chunk_data,
                          on_match |-> [i \in 1..Len(r.events) |-> r.events[i].keyword]])]
            /\ step' = [NoStep EXCEPT
                          !.op = "chunk", !.kind = "full", !.index = chunk_count,
                          !.chunk = chunk_data, !.fed = <<clean>>, !.state = state,
                          !.text = r.text, !.tag = r.tag,
                          !.matcher = IF r.tag = "none" THEN "none" ELSE "matched",
                          !.hit = IF r.events # <<>> THEN Some(r.events[1].keyword) ELSE None,
                          !.on_match = [i \in 1..Len(r.events) |-> r.events[i].keyword],
                          !.resets = r.resets,
                          !.prev_chunk = prev_chunk,
                          !.buf_before = mono_buf]
    /\ chunk_count' = chunk_count + 1
    /\ UNCHANGED <<raw, drained, stop_rx, input, app, runs, daemon_step,
                   entry, MIN_TAIL_SAMPLES, audio_buf, last_match, stop_flag, pc, now,
                   raw_pos, n_process, mono_stream, tails_since_full, last_event, last_emit>>

\* main.rs:145: the loop is over
MainReturn ==
    /\ entry = "main"
    /\ pc = "chunks"
    /\ Len(mono_buf) < CHUNK_SAMPLES
    /\ pc' = "idle"
    /\ step' = [NoStep EXCEPT !.op = "return", !.buf_before = mono_buf]
    /\ UNCHANGED <<raw, drained, stop_rx, input, app, runs, daemon_step,
                   entry, MIN_TAIL_SAMPLES, audio_buf, mono_buf, chunk_count, last_match,
                   stop_flag, now, raw_pos, n_process, mono_stream, prev_chunk,
                   tails_since_full, last_event, last_emit, tick>>

\* ------------------------------------------------------------------------
\* Specification of the two programs.  A run is shorter than one tick of
\* the clock; the passage of time is explored in SpecDedup.
\* ------------------------------------------------------------------------

Next ==
    \/ SendStop
    \/ StopWatcher
    \/ Process
    \/ TimerStop
    \/ TimerEmpty
    \/ TimerDrain
    \/ ChunkFull
    \/ TailFeed
    \/ TailSkip
    \/ MainProcess
    \/ MainChunk
    \/ MainReturn

Spec == Init /\ [][Next]_vars

\* ------------------------------------------------------------------------
\* Specification of the deduplicator: try_emit_match called with any
\* keyword at any time, as the three call sites of the timer callback do
\* ------------------------------------------------------------------------

Sources == {"final", "partial", "tail"}

\* time passes
ClockTick ==
    /\ now < MaxTime
    /\ now' = now + 1
    /\ step' = NoStep
    /\ UNCHANGED <<raw, drained, stop_rx, input, app, runs, daemon_step,
                   entry, MIN_TAIL_SAMPLES, audio_buf, mono_buf, chunk_count, last_match,
                   stop_flag, pc, raw_pos, n_process, mono_stream, prev_chunk,
                   tails_since_full, last_event, last_emit, tick>>

\* detector.rs:285, 305, 338: a call of try_emit_match
TryEmit ==
    /\ \E keyword \in KeywordSet, source \in Sources :
       \E e \in {try_emit_match(keyword, last_match, now)} :
            /\ last_match' = e.last_match
            /\ last_event' = EventAfter(e.on_match, now)
            /\ last_emit' = EmitAfter(e.on_match, now)
            /\ step' = [NoStep EXCEPT
                          !.op = "try_emit", !.tag = source, !.hit = Some(keyword),
                          !.on_match = e.on_match, !.prev_event = last_event,
                          !.prev_same = last_emit[keyword]]
    /\ UNCHANGED <<raw, drained, stop_rx, input, app, runs, daemon_step,
                   entry, MIN_TAIL_SAMPLES, audio_buf, mono_buf, chunk_count, stop_flag, pc,
                   now, raw_pos, n_process, mono_stream, prev_chunk, tails_since_full, tick>>

InitDedup == Init /\ entry = "detector"

NextDedup ==
    \/ ClockTick
    \/ TryEmit

SpecDedup == InitDedup /\ [][NextDedup]_vars

\* ------------------------------------------------------------------------
\* Properties
\* ------------------------------------------------------------------------

\* the last n elements of s
Last(s, n) == SubSeq(s, Len(s) - n + 1, Len(s))

\* the first n elements of s
First(s, n) == SubSeq(s, 1, n)

\* C1, as stated: whatever other keywords come in between, two on_match
\* calls for the same keyword are at least DEDUP_COOLDOWN_SECS apart.
C1_AnyTwoEventsApart ==
    (step.on_match # <<>> /\ step.prev_same # None)
        => now - step.prev_same[1] >= DEDUP_COOLDOWN_SECS

\* C1, amended: two on_match calls for the same keyword with no on_match
\* call for another keyword between them are at least DEDUP_COOLDOWN_SECS
\* apart.
C1_ConsecutiveEventsApart ==
    (/\ step.on_match # <<>>
     /\ step.prev_event # None
     /\ step.prev_event[1].kw = step.on_match[1])
        => now - step.prev_event[1].time >= DEDUP_COOLDOWN_SECS

C1_Witness ==
    /\ step.op = "try_emit"
    /\ step.on_match # <<>>
    /\ step.prev_event # None
    /\ step.prev_event[1].kw = step.on_match[1]
    /\ now - step.prev_event[1].time = DEDUP_COOLDOWN_SECS

\* C2: a call of try_emit_match for the keyword of the last emitted event
\* (no other keyword came in between) calls on_match not at all when less
\* than DEDUP_COOLDOWN_SECS have passed since that event, and exactly once
\* otherwise.
C2_SameKeywordCooldown ==
    (/\ step.op = "try_emit"
     /\ step.prev_event # None
     /\ step.prev_event[1].kw = step.hit[1])
        => IF now - step.prev_event[1].time < DEDUP_COOLDOWN_SECS
           THEN step.on_match = <<>>
           ELSE step.on_match = <<step.hit[1]>>

C2_Witness ==
    /\ step.op = "try_emit"
    /\ step.prev_event # None
    /\ step.prev_event[1].kw = step.hit[1]
    /\ now - step.prev_event[1].time = DEDUP_COOLDOWN_SECS - 1
    /\ step.on_match = <<>>
    /\ step.prev_same = Some(step.prev_event[1].time)

\* C3: every window handed to accept_waveform, from a full chunk or from a
\* zero-padded tail, is CHUNK_SAMPLES long.
C3_FedLength ==
    \A i \in 1..Len(step.fed) : Len(step.fed[i]) = CHUNK_SAMPLES

C3_Witness ==
    /\ step.kind = "tail"
    /\ Len(step.buf_before) < CHUNK_SAMPLES
    /\ Len(step.fed) = 1
    /\ Len(step.fed[1]) = CHUNK_SAMPLES

\* C4: the k-th full chunk (k from 0) is the samples at the positions
\* [k*advance, k*advance + CHUNK_SAMPLES) of the mono stream, and its first
\* OVERLAP_SAMPLES samples are the last OVERLAP_SAMPLES of the chunk before.
C4_ChunkPositions ==
    step.kind = "full" =>
        /\ step.chunk = SubSeq(mono_stream, step.index * advance + 1,
                               step.index * advance + CHUNK_SAMPLES)
        /\ step.prev_chunk # None =>
               Last(step.prev_chunk[1], OVERLAP_SAMPLES) = First(step.chunk, OVERLAP_SAMPLES)

C4_Witness ==
    /\ entry = "detector"
    /\ step.kind = "full"
    /\ step.index = 1
    /\ step.prev_chunk # None
    /\ step.prev_chunk[1] # step.chunk

C6_TailKeepsBuffer ==
    /\ step.op = "tail" => mono_buf = step.buf_before
    /\ step.op \in {"drain", "skip", "tail"} =>
           /\ Len(mono_buf) >= Len(step.buf_before)
           /\ First(mono_buf, Len(step.buf_before)) = step.buf_before

C6_Witness ==
    /\ step.op = "tail"
    /\ tick.new_len = 0
    /\ tails_since_full = 2
    /\ mono_buf # <<>>
    /\ First(step.chunk, Len(mono_buf)) = mono_buf

\* C7: between two full chunks the rest of mono_buf is fed as a padded tail
\* at most once.
C7_TailFedOnce ==
    tails_since_full <= 1

\* C8: at the end of the full-chunk loop, with L samples left in mono_buf,
\* a tail is fed exactly when MIN_TAIL_SAMPLES <= L < CHUNK_SAMPLES; the tail
\* is the L samples followed by CHUNK_SAMPLES - L zeros; otherwise nothing
\* is fed.
C8_TailRule ==
    LET L == Len(step.buf_before)
        inRange == MIN_TAIL_SAMPLES <= L /\ L < CHUNK_SAMPLES
    IN  /\ step.op = "tail" =>
               /\ inRange
               /\ Len(step.fed) = 1
               /\ Len(step.chunk) = CHUNK_SAMPLES
               /\ \A i \in 1..CHUNK_SAMPLES :
                      step.chunk[i] = IF i <= L THEN step.buf_before[i] ELSE 0
        /\ step.op = "skip" => (~inRange /\ step.fed = <<>>)
        /\ (entry = "detector" /\ pc = "idle" /\ tick # NoTick) =>
               ((\E i \in 1..Len(tick.fed) : tick.fed[i].kind = "tail")
                    <=> (MIN_TAIL_SAMPLES <= Len(mono_buf) /\ Len(mono_buf) < CHUNK_SAMPLES))

C8_Witness ==
    /\ step.op = "tail"
    /\ Len(step.buf_before) = MIN_TAIL_SAMPLES
    /\ Len(step.buf_before) = CHUNK_SAMPLES - 1
    /\ step.chunk[CHUNK_SAMPLES] = 0
    /\ step.chunk[1] # 0

\* C9: a chunk of the detector for which the recognizer reports Finalized:
\* with an empty or placeholder text no matcher runs and on_match is not
\* called; otherwise the hit is that of check_keywords_matched on the text,
\* it is tagged "final" for a full chunk and "tail" for a tail, and on_match
\* is called with it unless the dedup slot holds the same keyword.
C9_Finalized ==
    (/\ entry = "detector"
     /\ step.kind \in {"full", "tail"}
     /\ step.state = "Finalized")
        => IF step.text = <<>> \/ step.text = UNK
           THEN step.matcher = "none" /\ step.hit = None /\ step.on_match = <<>>
           ELSE /\ step.hit = check_keywords_matched(step.text, unique_keywords)
                /\ step.tag = (IF step.kind = "full" THEN "final" ELSE "tail")
                /\ step.hit = None => step.on_match = <<>>
                /\ step.hit # None =>
                       \/ step.on_match = <<step.hit[1]>>
                       \/ /\ step.on_match = <<>>
                          /\ step.prev_event # None
                          /\ step.prev_event[1].kw = step.hit[1]

C9_Witness ==
    /\ entry = "detector"
    /\ step.kind = "tail"
    /\ step.state = "Finalized"
    /\ step.tag = "tail"
    /\ step.on_match # <<>>
    /\ ~contains(to_lowercase(step.text), step.on_match[1])

\* C10: a keyword found in partial text is a substring of that text: no
\* event comes from partial text by similarity.
C10_PartialExactOnly ==
    (step.tag = "partial" /\ step.on_match # <<>>)
        => contains(to_lowercase(step.text), step.on_match[1])

\* C11: a chunk for which the recognizer reports Failed: the recognizer is
\* reset, no matcher runs on the chunk and no keyword event comes from it.
C11_FailedDiscarded ==
    step.state = "Failed" =>
        /\ step.resets >= 1
        /\ step.matcher = "none"
        /\ step.hit = None
        /\ step.on_match = <<>>

\* ------------------------------------------------------------------------
\* Specification of the library functions called on their own: the
\* arguments are chosen at the start and the function is applied to them
\* ------------------------------------------------------------------------

\* detector.rs:39-75 applied to the arguments
Convert ==
    /\ input.fn = "convert"
    /\ step.op = "none"
    /\ step' = [NoStep EXCEPT
                  !.op = "convert", !.args = input,
                  !.result = stereo_to_mono_and_downsample(input.samples, input.channels,
                                                           input.src_rate, input.dst_rate)]
    /\ UNCHANGED <<raw, drained, stop_rx, input, app, runs, daemon_step,
                   entry, MIN_TAIL_SAMPLES, audio_buf, mono_buf, chunk_count, last_match,
                   stop_flag, pc, now, raw_pos, n_process, mono_stream, prev_chunk,
                   tails_since_full, last_event, last_emit, tick>>

\* audio.rs:60-87: both matchers applied to the arguments
Match ==
    /\ input.fn = "match"
    /\ step.op = "none"
    /\ step' = [NoStep EXCEPT
                  !.op = "match", !.args = input,
                  !.result = [matched |-> check_keywords_matched(input.text, input.keywords),
                              exact   |-> check_keywords_exact(input.text, input.keywords)]]
    /\ UNCHANGED <<raw, drained, stop_rx, input, app, runs, daemon_step,
                   entry, MIN_TAIL_SAMPLES, audio_buf, mono_buf, chunk_count, last_match,
                   stop_flag, pc, now, raw_pos, n_process, mono_stream, prev_chunk,
                   tails_since_full, last_event, last_emit, tick>>

\* audio.rs:43-55 applied to the slice
Normalize ==
    /\ input.fn = "normalize"
    /\ step.op = "none"
    /\ step' = [NoStep EXCEPT
                  !.op = "normalize", !.args = input, !.result = normalize(input.samples)]
    /\ UNCHANGED <<raw, drained, stop_rx, input, app, runs, daemon_step,
                   entry, MIN_TAIL_SAMPLES, audio_buf, mono_buf, chunk_count, last_match,
                   stop_flag, pc, now, raw_pos, n_process, mono_stream, prev_chunk,
                   tails_since_full, last_event, last_emit, tick>>

\* keyword lists handed to run_detector: repeated words, words that differ
\* in case only, the placeholder itself, and no word at all
ConfiguredLists ==
    { <<>>,
      ConfiguredKeywords,
      << <<"o", "i">>, <<"O", "I">>, <<"o", "i">> >>,
      << <<"O", "K">>, <<"L", "u", "c", "a", "s">>, <<"o", "k">>, <<"o", "i">>,
         <<"L", "U", "c", "a", "s">>, <<"o", "k">> >>,
      << <<"o", "i">>, UNK, <<"o", "i">> >> }

\* arguments of the set-up of the grammar
GrammarInputs == [fn : {"grammar"}, keywords : ConfiguredLists]

\* detector.rs:98-112 and 219-228: unique_keywords, the grammar built from
\* it, and keyword_refs, the list the timer callback hands to the matchers
Grammar ==
    /\ input.fn = "grammar"
    /\ step.op = "none"
    /\ \E unique \in {UniqueFrom(input.keywords, <<>>)} :
         step' = [NoStep EXCEPT
                    !.op = "grammar", !.args = input,
                    !.result = [grammar      |-> Append(unique, UNK),
                                keyword_refs |-> unique]]
    /\ UNCHANGED <<raw, drained, stop_rx, input, app, runs, daemon_step,
                   entry, MIN_TAIL_SAMPLES, audio_buf, mono_buf, chunk_count, last_match,
                   stop_flag, pc, now, raw_pos, n_process, mono_stream, prev_chunk,
                   tails_since_full, last_event, last_emit, tick>>

InitCalls ==
    /\ entry = "library"
    /\ MIN_TAIL_SAMPLES \in MIN_TAIL_SAMPLES_RANGE
    /\ input \in ConvertInputs \cup MatchInputs \cup NormalizeInputs \cup GrammarInputs
    /\ audio_buf = <<>>
    /\ raw = <<>>
    /\ drained = <<>>
    /\ mono_buf = <<>>
    /\ chunk_count = 0
    /\ last_match = None
    /\ stop_flag = FALSE
    /\ stop_rx = "open"
    /\ pc = "idle"
    /\ now = 0
    /\ raw_pos = 0
    /\ n_process = 0
    /\ mono_stream = <<>>
    /\ prev_chunk = None
    /\ tails_since_full = 0
    /\ last_event = None
    /\ last_emit = [k \in KeywordSet |-> None]
    /\ tick = NoTick
    /\ step = NoStep
    /\ app = NoApp
    /\ runs = <<>>
    /\ daemon_step = NoDaemonStep

NextCalls ==
    \/ Convert
    \/ Match
    \/ Normalize
    \/ Grammar

SpecCalls == InitCalls /\ [][NextCalls]_vars

\* ------------------------------------------------------------------------
\* Properties of the library functions
\* ------------------------------------------------------------------------

\* the number of whole frames in the samples of a converter call, its
\* integer ratio, and the integer sum of the samples of its f-th frame
CallFrames == Len(step.args.samples) \div step.args.channels

CallRatio == step.args.src_rate \div step.args.dst_rate

FrameSum(f) ==
    SumSeq(SubSeq(step.args.samples, (f - 1) * step.args.channels + 1, f * step.args.channels))

\* C12, as stated: with an integer ratio N above 1 the converter returns
\* floor(F / N) samples for F input frames.
C12_FloorLength ==
    (step.op = "convert" /\ CallRatio > 1)
        => Len(step.result) = CallFrames \div CallRatio

\* C12, amended: with an integer ratio N above 1 the converter returns
\* ceil(F / N) samples for F input frames: the least count L with L * N >= F.
C12_CeilLength ==
    (step.op = "convert" /\ CallRatio > 1)
        => /\ Len(step.result) * CallRatio >= CallFrames
           /\ (Len(step.result) - 1) * CallRatio < CallFrames

C12_Witness ==
    /\ step.op = "convert"
    /\ CallRatio = 3
    /\ CallFrames = 7
    /\ Len(step.result) = 3

\* C13: with an integer ratio of at most 1 the converter returns one sample
\* per input frame, each the downmix of its frame, unfiltered.
C13_RatioOneUnchanged ==
    (step.op = "convert" /\ CallRatio <= 1)
        => /\ Len(step.result) = CallFrames
           /\ \A f \in 1..CallFrames :
                  step.result[f] = TruncDiv(FrameSum(f), step.args.channels)

C13_Witness ==
    /\ step.op = "convert"
    /\ step.args.src_rate = 3
    /\ step.args.dst_rate = 2
    /\ step.args.channels = 2
    /\ CallFrames = 4
    /\ Len(step.result) = 4
    /\ step.result[1] # step.result[2]

\* C14: a downmixed sample m of a frame with channel sum s and ch channels
\* is s / ch truncated toward zero: m * ch lies between 0 and s and is less
\* than ch away from s; and m is in the i16 range.  The downmix is what the
\* converter returns when the ratio is at most 1.
C14_DownmixTruncates ==
    (step.op = "convert" /\ CallRatio <= 1)
        => \A f \in 1..Len(step.result) :
               LET m  == step.result[f]
                   s  == FrameSum(f)
                   ch == step.args.channels
               IN  /\ IF s >= 0 THEN 0 <= m * ch /\ m * ch <= s
                                ELSE s <= m * ch /\ m * ch <= 0
                   /\ Abs(s - m * ch) < ch
                   /\ I16_MIN <= m /\ m <= I16_MAX

C14_Witness ==
    /\ step.op = "convert"
    /\ CallRatio <= 1
    /\ step.args.channels = 2
    /\ step.args.samples = <<-3, 2>>
    /\ step.result = <<0>>

\* the keywords of a matcher call that its lowercased text contains, by
\* position in the keyword list
ContainedKeywords ==
    {i \in 1..Len(step.args.keywords) :
        contains(to_lowercase(step.args.text), step.args.keywords[i])}

\* the result of the exact matcher is the first contained keyword in list
\* order, or none when no keyword is contained
ExactRule ==
    IF ContainedKeywords = {}
    THEN step.result.exact = None
    ELSE \E i \in ContainedKeywords :
            /\ \A j \in ContainedKeywords : i <= j
            /\ step.result.exact = Some(step.args.keywords[i])

\* C15, as stated: for every text, check_keywords_exact returns the first
\* keyword in list order that the lowercased text contains, and none when
\* it contains no keyword.
C15_ExactFirstInList ==
    step.op = "match" => ExactRule

\* C15, amended: for every text that is not empty, check_keywords_exact
\* returns the first keyword in list order that the lowercased text
\* contains, and none when it contains no keyword.
C15_ExactFirstInListNonEmpty ==
    (step.op = "match" /\ step.args.text # <<>>) => ExactRule

C15_Witness ==
    /\ step.op = "match"
    /\ step.args.text = <<"o", "i", " ", "l", "u", "c", "a", "s">>
    /\ step.args.keywords = << <<"l", "u", "c", "a", "s">>, <<"o", "i">> >>
    /\ step.result.exact = Some(<<"l", "u", "c", "a", "s">>)

\* C16: a keyword of fewer than 3 characters that check_keywords_matched
\* returns is a substring of the lowercased text.
C16_ShortKeywordExactOnly ==
    (/\ step.op = "match"
     /\ step.result.matched # None
     /\ Len(step.result.matched[1]) < 3)
        => contains(to_lowercase(step.args.text), step.result.matched[1])

C16_Witness ==
    /\ step.op = "match"
    /\ step.args.text = <<"o">>
    /\ step.args.keywords = << <<"o", "i">>, <<"l", "u", "c", "a", "s">> >>
    /\ JaroWinklerAtLeast(step.args.text, step.args.keywords[1], FUZZY_THRESHOLD)
    /\ step.result.matched = None

\* C17: on an empty text both matchers return no match, whatever the
\* keyword list.
C17_EmptyTextNoMatch ==
    (step.op = "match" /\ step.args.text = <<>>)
        => step.result.matched = None /\ step.result.exact = None

C17_Witness ==
    /\ step.op = "match"
    /\ step.args.text = <<>>
    /\ step.args.keywords = << <<>>, <<"o", "i">> >>
    /\ step.result.matched = None
    /\ step.result.exact = None

\* a slice is near-silent when its rms is below 100: sum of squares < 100^2 * n
NearSilent(samples) == SumSq(samples) < 10000 * Len(samples)

\* some sample of the slice is at an end of the i16 range
Clipped(samples) == \E i \in 1..Len(samples) : samples[i] \in {I16_MIN, I16_MAX}

\* the rms of the slice is within 3 of target_rms
NearTarget(samples) ==
    /\ SumSq(samples) >= (target_rms - 3) * (target_rms - 3) * Len(samples)
    /\ SumSq(samples) <= (target_rms + 3) * (target_rms + 3) * Len(samples)

\* C18: normalize returns an empty slice and a near-silent slice (rms < 100)
\* as they are.
C18_SilenceUntouched ==
    (/\ step.op = "normalize"
     /\ (step.args.samples = <<>> \/ NearSilent(step.args.samples)))
        => step.result = step.args.samples

C18_Witness ==
    /\ step.op = "normalize"
    /\ step.args.samples = <<99, -99, 99>>
    /\ step.result = <<99, -99, 99>>

\* C19, as stated: after normalize of a slice with rms >= 100 the rms is
\* within a small tolerance of target_rms, unless a sample was clipped.
C19_ReachesTarget ==
    (/\ step.op = "normalize"
     /\ step.args.samples # <<>>
     /\ ~NearSilent(step.args.samples)
     /\ ~Clipped(step.result))
        => NearTarget(step.result)

\* C19, amended: after normalize of a slice with rms >= 300, for which the
\* gain target_rms / rms does not exceed its cap of 10, the rms is within
\* a small tolerance of target_rms, unless a sample was clipped.
C19_ReachesTargetBelowCap ==
    (/\ step.op = "normalize"
     /\ step.args.samples # <<>>
     /\ SumSq(step.args.samples) >= 90000 * Len(step.args.samples)
     /\ ~Clipped(step.result))
        => NearTarget(step.result)

C19_Witness ==
    /\ step.op = "normalize"
    /\ step.args.samples = <<1000, 500>>
    /\ ~Clipped(step.result)
    /\ NearTarget(step.result)
    /\ step.result # step.args.samples

\* ------------------------------------------------------------------------
\* Specification of a run of the detector with its scheduling: the watcher
\* thread gets to run, the timer keeps firing, and a callback that has
\* started runs on to its end
\* ------------------------------------------------------------------------

InitStop == Init /\ entry = "detector"

NextStop ==
    \/ SendStop
    \/ StopWatcher
    \/ Process
    \/ TimerStop
    \/ TimerEmpty
    \/ TimerDrain
    \/ ChunkFull
    \/ TailFeed
    \/ TailSkip

\* detector.rs:245-347: the position of a callback that has started moves on:
\* the loop takes its next chunk (ChunkFull), or the callback returns
\* (TailFeed, TailSkip).  These are the steps of NextStop that change
\* <<pc, chunk_count>> from pc = "chunks", and one of them is possible in
\* every such state
CallbackAdvances ==
    /\ pc = "chunks"
    /\ \/ pc' = "chunks" /\ chunk_count' = chunk_count + 1
       \/ pc' = "idle" /\ chunk_count' = chunk_count

\* detector.rs:198-201: the watcher is a thread of its own; detector.rs:214:
\* the timer is armed to repeat, so a callback that finds the flag set comes;
\* the callback has no blocking call
SpecStop ==
    /\ InitStop
    /\ [][NextStop]_vars
    /\ WF_vars(StopWatcher)
    /\ WF_vars(TimerStop)
    /\ WF_<<pc, chunk_count>>(CallbackAdvances)

\* C20: once the stop message is sent or the stop channel is closed, the
\* run exits; and it exits only at the start of a timer callback that finds
\* the flag set, never in the middle of one.
C20_StopLeadsToExit ==
    /\ (stop_rx # "open") ~> (pc = "exited")
    /\ [][(pc # "exited" /\ pc' = "exited") => (pc = "idle" /\ stop_flag)]_vars

C20_Witness ==
    /\ pc = "exited"
    /\ stop_rx = "done"
    /\ step.op = "quit"
    /\ chunk_count > 0
    /\ mono_buf # <<>>

\* ------------------------------------------------------------------------
\* Specification of run_detector from its first statement: the set-up, then
\* the run
\* ------------------------------------------------------------------------

InitStart ==
    /\ entry = "detector"
    /\ MIN_TAIL_SAMPLES \in MIN_TAIL_SAMPLES_RANGE
    /\ audio_buf = <<>>
    /\ raw = <<>>
    /\ drained = <<>>
    /\ mono_buf = <<>>
    /\ chunk_count = 0
    /\ last_match = None
    /\ stop_flag = FALSE
    /\ stop_rx = "open"
    /\ input = NoInput
    /\ pc = StartupStages[1]
    /\ now = 0
    /\ raw_pos = 0
    /\ n_process = 0
    /\ mono_stream = <<>>
    /\ prev_chunk = None
    /\ tails_since_full = 0
    /\ last_event = None
    /\ last_emit = [k \in KeywordSet |-> None]
    /\ tick = NoTick
    /\ step = NoStep
    /\ app = NoApp
    /\ runs = <<>>
    /\ daemon_step = NoDaemonStep

NextStart ==
    \/ Startup
    \/ SendStop
    \/ StopWatcher
    \/ Process
    \/ TimerStop
    \/ TimerEmpty
    \/ TimerDrain
    \/ ChunkFull
    \/ TailFeed
    \/ TailSkip

SpecStart == InitStart /\ [][NextStart]_vars

\* C21: a stage of the set-up that fails ends the run with an error: the
\* stage is not tried again, nothing runs after the error, and no audio was
\* taken, no chunk fed and on_match never called in that run.
C21_StartupErrorIsFinal ==
    /\ [][(step'.op = "startup" /\ step'.result = "Err") => pc' = "error"]_vars
    /\ [][pc # "error"]_vars
    /\ [](pc = "error" =>
            /\ last_event = None
            /\ last_match = None
            /\ chunk_count = 0
            /\ n_process = 0
            /\ mono_stream = <<>>)

C21_Witness ==
    /\ pc = "error"
    /\ step.op = "startup"
    /\ step.args = <<"connect">>
    /\ step.result = "Err"
    /\ stop_rx # "open"

\* C22: a timer callback that finds the shared buffer empty returns at
\* once: the callback is over (nothing is fed to the recognizer, on_match is
\* not called) and the accumulation buffer, the chunk counter and the dedup
\* slot are what they were.
C22_EmptyTickChangesNothing ==
    [][step'.op = "empty" =>
          /\ audio_buf = <<>>
          /\ pc' = "idle"
          /\ step'.fed = <<>>
          /\ step'.on_match = <<>>
          /\ tick'.fed = <<>>
          /\ UNCHANGED <<audio_buf, mono_buf, chunk_count, last_match, last_event, last_emit,
                         prev_chunk, tails_since_full, mono_stream>>]_vars

C22_Witness ==
    /\ step.op = "empty"
    /\ pc = "idle"
    /\ chunk_count > 0
    /\ TailCondition(mono_buf, MIN_TAIL_SAMPLES)
    /\ last_match # None

\* ------------------------------------------------------------------------
\* Specification of a run of the detector with the lock of audio_buf: the
\* process callback and the statements of the timer callback interleave
\* ------------------------------------------------------------------------

InitLock == Init /\ entry = "detector"

NextLock ==
    \/ SendStop
    \/ StopWatcher
    \/ Process
    \/ TimerStop
    \/ TimerLock
    \/ TimerLockedEmpty
    \/ TimerTake
    \/ TimerConvert
    \/ ChunkFull
    \/ TailFeed
    \/ TailSkip

SpecLock == InitLock /\ [][NextLock]_vars

\* C23: the lock of the shared buffer is held for the drain only: a step
\* that runs the conversion (the downmix and the low-pass filter) or feeds
\* the recognizer starts with the lock free.
C23_LockOnlyForDrain ==
    [][step'.op \in {"convert", "chunk", "tail"} => ~Locked]_vars

\* C24: whatever the interleaving of the process callback and the timer
\* callback, the samples drained so far, followed by the samples that wait
\* in the shared buffer, are the samples pushed so far, in the order of the
\* pushes: none is lost, none is drained twice.  The conversion sees the
\* drained blocks in that order, and the k-th full chunk fed to the
\* recognizer starts k * advance samples into the converted stream.
C24_DrainedOnceInOrder ==
    /\ [](drained \o audio_buf = RawSlice(0, raw_pos))
    /\ [](raw # <<>> => raw = Last(drained, Len(raw)))
    /\ [][step'.op = "convert" =>
             /\ step'.args = raw
             /\ mono_stream' = mono_stream \o step'.result
             /\ mono_buf' = mono_buf \o step'.result]_vars
    /\ [][step'.kind = "full" =>
             /\ step'.index = chunk_count
             /\ chunk_count' = chunk_count + 1
             /\ step'.chunk = SubSeq(mono_stream, chunk_count * advance + 1,
                                     chunk_count * advance + CHUNK_SAMPLES)]_vars

C24_Witness ==
    /\ step.kind = "full"
    /\ step.index = 0
    /\ n_process = MaxPushes
    /\ audio_buf # <<>>
    /\ Len(drained) > 0
    /\ Len(drained) + Len(audio_buf) = raw_pos

\* ------------------------------------------------------------------------
\* Specification of the end-to-end scenario: the timer callback of
\* run_detector on a mono stream at the rate of the recognizer, with a stub
\* in the place of the recognizer, and the clock
\* ------------------------------------------------------------------------

\* the word spoken once in the stream
StubWord == <<"l", "u", "c", "a", "s">>

\* the scenarios: the position of the mono stream at which the word lies
StubInputs == [fn : {"stub"}, word : 1..MaxWord]

\* sizes, in mono samples, of the buffers delivered
StubPushSizes == {1, 2, 3}

\* the stub: Finalized with the word for a window that contains the word,
\* and an empty text, in any state, otherwise
StubRecognizer(from, to) ==
    IF input.word \in from..to
    THEN {[state |-> "Finalized", text |-> StubWord]}
    ELSE {[state |-> state, text |-> <<>>] : state \in DecodingStates}

\* the interpreter on what the stub returns
StubFullOutcome ==
    [state \in DecodingStates |->
        [text \in {<<>>, StubWord} |-> InterpretFull(state, text, unique_keywords)]]

StubTailOutcome ==
    [state \in DecodingStates |->
        [text \in {<<>>, StubWord} |-> InterpretTail(state, text, unique_keywords)]]

InitStub ==
    /\ entry = "stub"
    /\ input \in StubInputs
    /\ MIN_TAIL_SAMPLES \in MIN_TAIL_SAMPLES_RANGE
    /\ audio_buf = <<>>
    /\ raw = <<>>
    /\ drained = <<>>
    /\ mono_buf = <<>>
    /\ chunk_count = 0
    /\ last_match = None
    /\ stop_flag = FALSE
    /\ stop_rx = "open"
    /\ pc = "idle"
    /\ now = 0
    /\ raw_pos = 0
    /\ n_process = 0
    /\ mono_stream = <<>>
    /\ prev_chunk = None
    /\ tails_since_full = 0
    /\ last_event = None
    /\ last_emit = [k \in KeywordSet |-> None]
    /\ tick = NoTick
    /\ step = NoStep
    /\ app = NoApp
    /\ runs = <<>>
    /\ daemon_step = NoDaemonStep

\* detector.rs:145-166: a buffer of the stream is delivered
StubPush ==
    /\ entry = "stub"
    /\ pc \in {"idle", "chunks"}
    /\ n_process < MaxPushes
    /\ \E n \in StubPushSizes :
        /\ audio_buf' = audio_buf \o RawSlice(raw_pos, n)
        /\ raw_pos' = raw_pos + n
    /\ n_process' = n_process + 1
    /\ step' = [NoStep EXCEPT !.op = "process"]
    /\ UNCHANGED <<raw, drained, stop_rx, input, app, runs, daemon_step,
                   entry, MIN_TAIL_SAMPLES, mono_buf, chunk_count, last_match, stop_flag,
                   pc, now, mono_stream, prev_chunk, tails_since_full, last_event,
                   last_emit, tick>>

\* detector.rs:231-242 with one channel and equal rates
StubDrain ==
    /\ entry = "stub"
    /\ pc = "idle"
    /\ audio_buf # <<>>
    /\ \E new_mono \in {stereo_to_mono_and_downsample(audio_buf, 1, VOSK_SAMPLE_RATE,
                                                      VOSK_SAMPLE_RATE)} :
           /\ mono_buf' = mono_buf \o new_mono
           /\ mono_stream' = mono_stream \o new_mono
           /\ tick' = [start_len |-> Len(mono_buf), new_len |-> Len(new_mono), fed |-> <<>>]
    /\ audio_buf' = <<>>
    /\ drained' = drained \o audio_buf
    /\ pc' = "chunks"
    /\ step' = [NoStep EXCEPT !.op = "drain", !.buf_before = mono_buf]
    /\ UNCHANGED <<raw, stop_rx, input, app, runs, daemon_step,
                   entry, MIN_TAIL_SAMPLES, chunk_count, last_match, stop_flag, now, raw_pos,
                   n_process, prev_chunk, tails_since_full, last_event, last_emit>>

\* detector.rs:245-313 with the stub: the chunk holds the positions
\* chunk_count * advance + 1 .. chunk_count * advance + CHUNK_SAMPLES
StubChunk ==
    /\ entry = "stub"
    /\ pc = "chunks"
    /\ Len(mono_buf) >= CHUNK_SAMPLES
    /\ \E chunk \in {TakeChunk(mono_buf)} :
       \E processed \in {Condition(chunk)} :
       \E heard \in StubRecognizer(chunk_count * advance + 1,
                                   chunk_count * advance + CHUNK_SAMPLES) :
       \E r \in {StubFullOutcome[heard.state][heard.text]} :
       \E e \in {Emit(r.hit, last_match, now)} :
            /\ mono_buf' = DrainAdvance(mono_buf)
            /\ chunk_count' = chunk_count + 1
            /\ last_match' = e.last_match
            /\ prev_chunk' = Some(chunk)
            /\ last_event' = EventAfter(e.on_match, now)
            /\ last_emit' = EmitAfter(e.on_match, now)
            /\ tick' = [tick EXCEPT !.fed = Append(@, [kind |-> "full", chunk |-> chunk,
                                                     on_match |-> e.on_match])]
            /\ step' = FeedStep("chunk", "full", chunk, processed, heard.state, heard.text,
                                r, e)
    /\ tails_since_full' = 0
    /\ UNCHANGED <<raw, drained, stop_rx, input, app, runs, daemon_step,
                   entry, MIN_TAIL_SAMPLES, audio_buf, stop_flag, pc, now, raw_pos,
                   n_process, mono_stream>>

\* detector.rs:318-347 with the stub: the tail holds the positions from
\* chunk_count * advance + 1 to the end of the stream so far
StubTail ==
    /\ entry = "stub"
    /\ pc = "chunks"
    /\ Len(mono_buf) < CHUNK_SAMPLES
    /\ TailCondition(mono_buf, MIN_TAIL_SAMPLES)
    /\ \E tail \in {BuildTail(mono_buf)} :
       \E processed \in {Condition(tail)} :
       \E heard \in StubRecognizer(chunk_count * advance + 1, Len(mono_stream)) :
       \E r \in {StubTailOutcome[heard.state][heard.text]} :
       \E e \in {Emit(r.hit, last_match, now)} :
            /\ mono_buf' = AfterTail(mono_buf)
            /\ last_match' = e.last_match
            /\ last_event' = EventAfter(e.on_match, now)
            /\ last_emit' = EmitAfter(e.on_match, now)
            /\ tick' = [tick EXCEPT !.fed = Append(@, [kind |-> "tail", chunk |-> tail,
                                                     on_match |-> e.on_match])]
            /\ step' = FeedStep("tail", "tail", tail, processed, heard.state, heard.text,
                                r, e)
    /\ tails_since_full' = tails_since_full + 1
    /\ pc' = "idle"
    /\ UNCHANGED <<raw, drained, stop_rx, input, app, runs, daemon_step,
                   entry, MIN_TAIL_SAMPLES, audio_buf, chunk_count, stop_flag, now, raw_pos,
                   n_process, mono_stream, prev_chunk>>

\* detector.rs:318: the rest is too short for a tail: return
StubSkip ==
    /\ entry = "stub"
    /\ pc = "chunks"
    /\ Len(mono_buf) < CHUNK_SAMPLES
    /\ ~TailCondition(mono_buf, MIN_TAIL_SAMPLES)
    /\ pc' = "idle"
    /\ step' = [NoStep EXCEPT !.op = "skip", !.buf_before = mono_buf]
    /\ UNCHANGED <<raw, drained, stop_rx, input, app, runs, daemon_step,
                   entry, MIN_TAIL_SAMPLES, audio_buf, mono_buf, chunk_count, last_match,
                   stop_flag, now, raw_pos, n_process, mono_stream, prev_chunk,
                   tails_since_full, last_event, last_emit, tick>>

NextStub ==
    \/ ClockTick
    \/ StubPush
    \/ StubDrain
    \/ StubChunk
    \/ StubTail
    \/ StubSkip

SpecStub == InitStub /\ [][NextStub]_vars

\* the stream is over: every buffer was delivered and drained, and the
\* callback that drained the last one has returned
StubDone == pc = "idle" /\ n_process = MaxPushes /\ audio_buf = <<>>

\* the word lies in the stream that was delivered
WordInStream == input.word <= Len(mono_stream)

\* at StubDone: the word lies in a window that was fed, a full chunk or the
\* tail of the last callback (an earlier tail is the front of a later chunk)
WordFed ==
    \/ chunk_count >= 1 /\ input.word <= (chunk_count - 1) * advance + CHUNK_SAMPLES
    \/ TailCondition(mono_buf, MIN_TAIL_SAMPLES) /\ WordInStream

OnMatchCalled == last_emit[StubWord] # None

\* C25, as stated: with the stub recognizer, on_match("lucas") is called
\* exactly once for a stream that contains the word once: there is no
\* second call, and there is one when the stream is over.
C25_ExactlyOnce ==
    /\ step.on_match # <<>> => step.prev_same = None
    /\ (StubDone /\ WordInStream) => OnMatchCalled

\* C25, amended: a window without the word calls nothing; the first window
\* with the word calls on_match("lucas"); a later window with the word, fed
\* less than DEDUP_COOLDOWN_SECS after that call, calls nothing; and when
\* the stream is over and the word lay in a window that was fed, the call
\* was made.
C25_ExactlyOnceFedInTime ==
    /\ step.text # StubWord => step.on_match = <<>>
    /\ (step.text = StubWord /\ step.prev_same = None) => step.on_match = <<StubWord>>
    /\ (/\ step.text = StubWord
        /\ step.prev_same # None
        /\ now - step.prev_same[1] < DEDUP_COOLDOWN_SECS) => step.on_match = <<>>
    /\ (StubDone /\ WordFed) => OnMatchCalled

C25_Witness ==
    /\ entry = "stub"
    /\ step.kind = "full"
    /\ step.index > 0
    /\ step.text = StubWord
    /\ step.prev_same # None
    /\ now > step.prev_same[1]
    /\ step.on_match = <<>>

\* C26: the dedup state is one slot, the keyword of the last event: a call
\* of try_emit_match for a keyword other than that of the last event calls
\* on_match, however short the time since that keyword's own last event.
\* So the matches A, B, A give three events, also inside one cooldown.
C26_OtherKeywordBypasses ==
    (/\ step.op = "try_emit"
     /\ step.prev_event # None
     /\ step.prev_event[1].kw # step.hit[1])
        => /\ step.on_match = <<step.hit[1]>>
           /\ last_match = Some([kw |-> step.hit[1], time |-> now])

C26_Witness ==
    /\ step.op = "try_emit"
    /\ step.on_match # <<>>
    /\ step.prev_event # None
    /\ step.prev_event[1].kw # step.on_match[1]
    /\ step.prev_same # None
    /\ step.prev_same[1] <= step.prev_event[1].time
    /\ now - step.prev_same[1] < DEDUP_COOLDOWN_SECS

\* C27: a call of try_emit_match that finds the slot holding the same
\* keyword with a timestamp less than DEDUP_COOLDOWN_SECS old calls nothing
\* and leaves the slot, keyword and timestamp, as it was; any other call
\* calls on_match once with the keyword and sets the slot to (keyword, now).
C27_SlotSetOnEmitOnly ==
    [][step'.op = "try_emit" =>
          IF /\ last_match # None
             /\ last_match[1].kw = step'.hit[1]
             /\ now - last_match[1].time < DEDUP_COOLDOWN_SECS
          THEN /\ step'.on_match = <<>>
               /\ last_match' = last_match
          ELSE /\ step'.on_match = <<step'.hit[1]>>
               /\ last_match' = Some([kw |-> step'.hit[1], time |-> now])]_vars

C27_Witness ==
    /\ step.op = "try_emit"
    /\ step.on_match = <<>>
    /\ last_match # None
    /\ last_match[1].kw = step.hit[1]
    /\ last_match[1].time < now
    /\ last_match[1].time > 0

\* C28: when a timer callback of the detector has returned, mono_buf holds
\* fewer than CHUNK_SAMPLES samples, however many samples the callback
\* appended and however many chunks it fed.
C28_BufferBelowChunk ==
    (entry = "detector" /\ pc \in {"idle", "exited"}) => Len(mono_buf) < CHUNK_SAMPLES

C28_Witness ==
    /\ entry = "detector"
    /\ pc = "idle"
    /\ step.op \in {"tail", "skip"}
    /\ tick.new_len >= CHUNK_SAMPLES
    /\ Len(tick.fed) >= 2
    /\ tick.fed[2].kind = "full"
    /\ mono_buf # <<>>

\* C29: the timer callback that finds the stop flag set only quits the
\* mainloop: it takes nothing out of the shared buffer, feeds nothing to the
\* recognizer and calls no on_match.  The samples that wait in the shared
\* buffer and in mono_buf stay where they are, and the run ends without an
\* error.
C29_StopTickOnlyQuits ==
    [][pc' = "exited" =>
          /\ stop_flag
          /\ step'.op = "quit"
          /\ step'.fed = <<>>
          /\ step'.on_match = <<>>
          /\ tick'.fed = <<>>
          /\ UNCHANGED <<audio_buf, raw, drained, mono_buf, mono_stream, chunk_count,
                         last_match, last_event, last_emit, tails_since_full>>]_vars

C29_Witness ==
    /\ pc = "exited"
    /\ step.op = "quit"
    /\ audio_buf # <<>>
    /\ TailCondition(mono_buf, MIN_TAIL_SAMPLES)
    /\ Len(drained) + Len(audio_buf) = raw_pos

\* the configured keywords, lowercased
Lowered(keywords) == [i \in 1..Len(keywords) |-> to_lowercase(keywords[i])]

\* the place of the first occurrence of k in s
FirstIndex(s, k) == CHOOSE i \in 1..Len(s) : s[i] = k /\ \A j \in 1..(i - 1) : s[j] # k

\* u holds each element of s once, in the order of the first occurrences
IsFirstOccurrences(u, s) ==
    /\ \A i \in 1..Len(s) : \E j \in 1..Len(u) : u[j] = s[i]
    /\ \A j \in 1..Len(u) : \E i \in 1..Len(s) : s[i] = u[j]
    /\ \A i, j \in 1..Len(u) : i < j => FirstIndex(s, u[i]) < FirstIndex(s, u[j])

\* C30: the keyword list of the matchers is the configured keywords,
\* lowercased, each once, in the order of their first occurrences, and the
\* grammar is that list followed by the placeholder "[unk]", once.
C30_GrammarIsUniqueLowercase ==
    step.op = "grammar" =>
        /\ IsFirstOccurrences(step.result.keyword_refs, Lowered(step.args.keywords))
        /\ Len(step.result.grammar) = Len(step.result.keyword_refs) + 1
        /\ First(step.result.grammar, Len(step.result.keyword_refs)) = step.result.keyword_refs
        /\ step.result.grammar[Len(step.result.grammar)] = UNK

C30_Witness ==
    /\ step.op = "grammar"
    /\ Len(step.args.keywords) = 6
    /\ step.result.keyword_refs
         = << <<"o", "k">>, <<"l", "u", "c", "a", "s">>, <<"o", "i">> >>
    /\ Len(step.result.grammar) = 4

\* C31: a tail chunk for which the recognizer returns a state other than
\* Finalized calls no matcher and no on_match and leaves the dedup slot as
\* it was, whatever the partial transcript holds.
C31_TailNeedsFinalized ==
    [][(step'.kind = "tail" /\ step'.state # "Finalized") =>
          /\ step'.matcher = "none"
          /\ step'.hit = None
          /\ step'.on_match = <<>>
          /\ UNCHANGED <<last_match, last_event, last_emit>>]_vars

C31_Witness ==
    /\ entry = "detector"
    /\ step.kind = "tail"
    /\ step.state = "Running"
    /\ check_keywords_exact(step.text, unique_keywords) # None
    /\ step.on_match = <<>>

\* C32: from the first full chunk of a run on, mono_buf holds at least
\* OVERLAP_SAMPLES samples; so when MIN_TAIL_SAMPLES <= OVERLAP_SAMPLES a
\* callback that fed a full chunk ends with a tail chunk.
C32_OverlapStays ==
    /\ (entry = "detector" /\ chunk_count >= 1) => Len(mono_buf) >= OVERLAP_SAMPLES
    /\ (/\ entry = "detector"
        /\ pc = "idle"
        /\ tick.fed # <<>>
        /\ tick.fed[1].kind = "full"
        /\ MIN_TAIL_SAMPLES <= OVERLAP_SAMPLES)
            => tick.fed[Len(tick.fed)].kind = "tail"

C32_Witness ==
    /\ entry = "detector"
    /\ pc = "idle"
    /\ MIN_TAIL_SAMPLES <= OVERLAP_SAMPLES
    /\ Len(tick.fed) = 2
    /\ tick.fed[1].kind = "full"
    /\ tick.fed[2].kind = "tail"
    /\ Len(mono_buf) = OVERLAP_SAMPLES

\* the number of full chunks in a stream of n samples
ExpectedChunks(n) ==
    IF n < CHUNK_SAMPLES THEN 0 ELSE (n - CHUNK_SAMPLES) \div (CHUNK_SAMPLES - OVERLAP_SAMPLES) + 1

\* C33: in both programs, however the mono stream was split over the
\* callbacks, when a callback has returned the number of full chunks taken
\* so far is 0 for a stream shorter than CHUNK_SAMPLES and
\* (N - CHUNK_SAMPLES) \div (CHUNK_SAMPLES - OVERLAP_SAMPLES) + 1 otherwise,
\* N the length of the stream so far; and the chunk with index k is what
\* the stream holds from position k * (CHUNK_SAMPLES - OVERLAP_SAMPLES) on.
C33_ChunksOfStream ==
    /\ chunk_count <= ExpectedChunks(Len(mono_stream))
    /\ pc \in {"idle", "exited"} => chunk_count = ExpectedChunks(Len(mono_stream))
    /\ step.kind = "full" =>
          /\ step.index = chunk_count - 1
          /\ step.chunk = SubSeq(mono_stream,
                                 step.index * (CHUNK_SAMPLES - OVERLAP_SAMPLES) + 1,
                                 step.index * (CHUNK_SAMPLES - OVERLAP_SAMPLES) + CHUNK_SAMPLES)

C33_Witness ==
    /\ pc = "idle"
    /\ chunk_count = 2
    /\ tick.start_len > 0
    /\ tick.new_len < CHUNK_SAMPLES
    /\ tick.fed # <<>>
    /\ tick.fed[1].kind = "full"
    /\ Len(mono_stream) = CHUNK_SAMPLES + (CHUNK_SAMPLES - OVERLAP_SAMPLES)


(***************************************************************************)
(* The offline harness: chunk_audio of tests/accuracy.rs cuts a whole      *)
(* buffer by stepping an offset; the chunks of its while loop are its full *)
(* chunks, and a zero-padded rest follows them when samples remain.        *)
(***************************************************************************)
RECURSIVE chunk_audio_loop_no_overlap(_, _, _)
\* mutant: the offset steps by a whole chunk
chunk_audio_loop_no_overlap(pcm, offset, chunks) ==
    IF offset + CHUNK_SAMPLES <= Len(pcm)
    THEN chunk_audio_loop_no_overlap(pcm, offset + CHUNK_SAMPLES,
                          Append(chunks, SubSeq(pcm, offset + 1, offset + CHUNK_SAMPLES)))
    ELSE [chunks |-> chunks, offset |-> offset]

RECURSIVE chunk_audio_loop(_, _, _)
chunk_audio_loop(pcm, offset, chunks) ==
    IF offset + CHUNK_SAMPLES <= Len(pcm)
    THEN chunk_audio_loop(pcm, offset + advance,
                          Append(chunks, SubSeq(pcm, offset + 1, offset + CHUNK_SAMPLES)))
    ELSE [chunks |-> chunks, offset |-> offset]

chunk_audio(pcm) ==
    LET l == chunk_audio_loop(pcm, 0, <<>>)
        tail == SubSeq(pcm, l.offset + 1, Len(pcm))
    IN  IF l.offset < Len(pcm)
        THEN Append(l.chunks, tail \o [i \in 1..(CHUNK_SAMPLES - Len(tail)) |-> 0])
        ELSE l.chunks

\* the chunks of the harness that are cut whole from the buffer
HarnessFullChunks(pcm) == chunk_audio_loop(pcm, 0, <<>>).chunks

\* C34: for the same mono input the streaming chunker and chunk_audio cut the
\* same full chunks in the same order: every full chunk the streaming code
\* feeds is the harness's chunk of the same index, and when a callback is
\* over the streaming code has fed as many full chunks as the harness cuts.
C34_StreamingIsOffline ==
    \A h \in {HarnessFullChunks(mono_stream)} :
        /\ chunk_count <= Len(h)
        /\ pc \in {"idle", "exited"} => chunk_count = Len(h)
        /\ step.kind = "full" =>
              /\ step.index + 1 \in 1..Len(h)
              /\ h[step.index + 1] = step.chunk

C34_Witness ==
    /\ entry = "detector"
    /\ pc = "idle"
    /\ chunk_count = 2
    /\ tick.fed # <<>>
    /\ tick.fed[1].kind = "full"
    /\ Len(chunk_audio(mono_stream)) = 3
    /\ Len(HarnessFullChunks(mono_stream)) = 2
    /\ HarnessFullChunks(mono_stream)[2] = tick.fed[1].chunk
    /\ HarnessFullChunks(mono_stream)[1] # tick.fed[1].chunk

\* the mono samples one call of the converter makes of everything drained so far
WholeStreamConverted ==
    stereo_to_mono_and_downsample(drained, PW_CHANNELS, PW_SAMPLE_RATE, VOSK_SAMPLE_RATE)

\* C35: conversion is independent of tick boundaries: the pieces drained at
\* successive ticks, converted one by one, have appended as many mono samples
\* to the accumulation buffer as one conversion of the whole raw stream drained
\* so far makes (a raw sample dropped at a piece's end shows as a shortfall).
C35_TickIndependent ==
    entry = "detector" => Len(mono_stream) = Len(WholeStreamConverted)

\* two drains of four frames each give 2 + 2 mono samples, the eight frames
\* in one call give 3
C35_FrameAlignedPieces ==
    /\ entry = "detector"
    /\ Len(drained) = 16
    /\ Len(mono_stream) = 4
    /\ Len(WholeStreamConverted) = 3

\* the first position of keyword k in the list
PositionOf(k, keywords) ==
    CHOOSE i \in 1..Len(keywords) :
        keywords[i] = k /\ \A j \in 1..(i - 1) : keywords[j] # k

\* C36: whenever check_keywords_exact returns a keyword for a text and a
\* keyword list, check_keywords_matched returns a keyword too, and one that
\* stands no later in the list.
C36_FuzzyCoversExact ==
    (step.op = "match" /\ step.result.exact # None) =>
        /\ step.result.matched # None
        /\ PositionOf(step.result.matched[1], step.args.keywords)
              <= PositionOf(step.result.exact[1], step.args.keywords)

C36_Witness ==
    /\ step.op = "match"
    /\ step.args.text = <<"o", "i", " ", "l", "u", "k", "a", "s">>
    /\ step.args.keywords = << <<"l", "u", "c", "a", "s">>, <<"o", "i">> >>
    /\ step.result.exact = Some(<<"o", "i">>)
    /\ step.result.matched = Some(<<"l", "u", "c", "a", "s">>)

RECURSIVE OnMatchCalls(_)
\* the number of on_match invocations of the feeds of one tick
OnMatchCalls(fed) ==
    IF fed = <<>> THEN 0 ELSE Len(fed[1].on_match) + OnMatchCalls(Tail(fed))

\* the number of full chunks among the feeds of one tick
FullChunksOf(fed) == Cardinality({i \in 1..Len(fed) : fed[i].kind = "full"})

\* C37: in run_detector a chunk fed to the recognizer leads to at most one
\* on_match, and the on_match invocations of one timer tick are at most the
\* full chunks of that tick plus one for the tail.
C37_AtMostOnePerChunk ==
    entry \in {"detector", "stub"} =>
        /\ step.kind \in {"full", "tail"} => Len(step.on_match) <= 1
        /\ \A i \in 1..Len(tick.fed) : Len(tick.fed[i].on_match) <= 1
        /\ OnMatchCalls(tick.fed) <= FullChunksOf(tick.fed) + 1

C37_Witness ==
    /\ entry = "detector"
    /\ pc = "idle"
    /\ Len(tick.fed) = 2
    /\ FullChunksOf(tick.fed) = 1
    /\ tick.fed[2].kind = "tail"
    /\ OnMatchCalls(tick.fed) = 2


(***************************************************************************)
(* The daemon around run_detector (plentysound/src/app.rs).  The daemon's  *)
(* loop handles one command, autostart or poll at a time; every detector   *)
(* run is a thread of its own that shares two channels with the daemon.    *)
(* A run is kept here by what the daemon can see of it: whether it is      *)
(* starting up, running or over, what it was told and what it sent.        *)
(***************************************************************************)

\* detector threads spawned in one behaviour
MaxRuns == 2

\* entries of word_mappings
MaxMappings == 2

\* on_match calls of one run
MaxSends == 1

\* the words a user maps to a song
MappingWords == { <<"o", "i">>, <<"L", "u", "c", "a", "s">> }

\* the word_mappings a configuration file holds when the daemon starts
ConfigMappings == { <<>>, << <<"o", "i">> >> }

\* app.rs:491-494: a thread is spawned with the receiving end of a new stop
\* channel and the sending end of a new match channel
NewRun(keywords) ==
    [keywords |-> keywords,     \* the words handed to run_detector
     phase    |-> "starting",   \* "starting", "running", "error" (returned Err), "exited"
     stop_rx  |-> "open",       \* "open" or "sent": a stop message waits or was taken
     match_rx |-> TRUE,         \* the daemon still holds the receiver of the match channel
     queue    |-> <<>>,         \* the words sent and not yet received
     sends    |-> 0,            \* history: on_match calls
     dropped  |-> 0]            \* history: sends that failed, the receiver being gone

\* the run is not over
Alive(run) == run.phase \in {"starting", "running"}

\* the words of the mappings, in order (app.rs:477)
MappingKeywords(a) == a.word_mappings

\* mutant: the receiver of the match channel is kept
stop_detector_keeps_rx(a, rs) ==
    LET told == IF a.detector_stop_tx # None /\ Alive(rs[a.detector_stop_tx[1]])
                THEN [rs EXCEPT ![a.detector_stop_tx[1]].stop_rx = "sent"]
                ELSE rs
    IN  [app  |-> [a EXCEPT !.detector_stop_tx = None,
                            !.word_detector_status = IF @ = "Running" THEN "Ready" ELSE @],
         runs |-> told]

\* app.rs:518-527
stop_detector(a, rs) ==
    LET told == IF a.detector_stop_tx # None /\ Alive(rs[a.detector_stop_tx[1]])
                THEN [rs EXCEPT ![a.detector_stop_tx[1]].stop_rx = "sent"]
                ELSE rs
        deaf == IF a.detector_match_rx # None
                THEN [told EXCEPT ![a.detector_match_rx[1]].match_rx = FALSE,
                                  ![a.detector_match_rx[1]].queue = <<>>]
                ELSE told
    IN  [app  |-> [a EXCEPT !.detector_stop_tx = None,
                            !.detector_match_rx = None,
                            !.word_detector_status = IF @ = "Running" THEN "Ready" ELSE @],
         runs |-> deaf]

\* app.rs:471-515
start_detector(a, rs) ==
    LET s == stop_detector(a, rs)
        keywords == MappingKeywords(a)
    IN  IF keywords = <<>> THEN s
        ELSE [app  |-> [s.app EXCEPT !.detector_stop_tx = Some(Len(rs) + 1),
                                     !.detector_match_rx = Some(Len(rs) + 1),
                                     !.word_detector_status = "Running"],
              runs |-> Append(s.runs, NewRun(keywords))]

\* app.rs:530-557: the words waiting in the receiver the daemon holds, the
\* events for those that are the word of a mapping, and the mappings played
poll_detector_matches(a, rs) ==
    LET words == IF a.detector_match_rx = None THEN <<>>
                 ELSE rs[a.detector_match_rx[1]].queue
        Found(w) == {i \in 1..Len(a.word_mappings) : a.word_mappings[i] = w.word}
        hits == SelectSeq(words, LAMBDA w : Found(w) # {})
    IN  [words  |-> words,
         events |-> hits,
         played |-> [j \in 1..Len(hits) |->
                        CHOOSE i \in Found(hits[j]) : \A k \in Found(hits[j]) : i <= k]]

\* app.rs:299-311, with a song_index that exists
AddWordMapping ==
    /\ entry = "daemon"
    /\ Len(app.word_mappings) < MaxMappings
    /\ \E word \in MappingWords :
           app' = [app EXCEPT !.word_mappings = Append(@, word)]
    /\ daemon_step' = NoDaemonStep
    /\ UNCHANGED <<detector_vars, runs>>

\* app.rs:314-320
RemoveWordMapping ==
    /\ entry = "daemon"
    /\ \E idx \in 1..Len(app.word_mappings) :
           app' = [app EXCEPT !.word_mappings =
                       SubSeq(@, 1, idx - 1) \o SubSeq(@, idx + 1, Len(@))]
    /\ daemon_step' = NoDaemonStep
    /\ UNCHANGED <<detector_vars, runs>>

\* app.rs:322-325
StartWordDetector ==
    /\ entry = "daemon"
    /\ Len(runs) < MaxRuns
    /\ \E s \in {start_detector(app, runs)} :
           /\ app' = s.app
           /\ runs' = s.runs
    /\ daemon_step' = NoDaemonStep
    /\ UNCHANGED detector_vars

\* app.rs:327-330
StopWordDetector ==
    /\ entry = "daemon"
    /\ \E s \in {stop_detector(app, runs)} :
           /\ app' = s.app
           /\ runs' = s.runs
    /\ daemon_step' = NoDaemonStep
    /\ UNCHANGED detector_vars

\* app.rs:433-468, at a sinks update that lists an input node (daemon.rs:91-96)
try_autostart_detector ==
    /\ entry = "daemon"
    /\ app.word_detector_status = "Ready"
    /\ app.word_mappings # <<>>
    /\ app.detector_stop_tx = None
    /\ Len(runs) < MaxRuns
    /\ \E s \in {start_detector(app, runs)} :
           /\ app' = s.app
           /\ runs' = s.runs
    /\ daemon_step' = NoDaemonStep
    /\ UNCHANGED detector_vars

\* daemon.rs:134 calls poll_detector_matches at every turn of the loop
Poll ==
    /\ entry = "daemon"
    /\ \E r \in {poll_detector_matches(app, runs)} :
           /\ daemon_step' = [NoDaemonStep EXCEPT !.op = "poll", !.words = r.words,
                                                  !.events = r.events, !.played = r.played]
           /\ runs' = IF app.detector_match_rx = None THEN runs
                      ELSE [runs EXCEPT ![app.detector_match_rx[1]].queue = <<>>]
    /\ UNCHANGED <<detector_vars, app>>

\* detector.rs:93-192 in the thread of app.rs:494-512: the set-up succeeds, or
\* a step of it fails, run_detector returns Err and the thread logs it and ends
DetectorStartup ==
    /\ entry = "daemon"
    /\ \E i \in 1..Len(runs) :
           /\ runs[i].phase = "starting"
           /\ \E outcome \in {"running", "error"} :
                  runs' = [runs EXCEPT ![i].phase = outcome]
           /\ daemon_step' = NoDaemonStep
    /\ UNCHANGED <<detector_vars, app>>

\* detector.rs:14-32 calls on_match with a keyword of unique_keywords, and the
\* closure of app.rs:500-503 sends it on match_tx, ignoring a failed send.  A
\* run that was told to stop may still be in a timer callback.
DetectorMatch ==
    /\ entry = "daemon"
    /\ \E i \in 1..Len(runs) :
           /\ runs[i].phase = "running"
           /\ runs[i].sends < MaxSends
           /\ \E uk \in {UniqueFrom(runs[i].keywords, <<>>)} :
              \E k \in 1..Len(uk) :
                  runs' = [runs EXCEPT
                              ![i].sends = @ + 1,
                              ![i].queue = IF runs[i].match_rx
                                           THEN Append(@, [word |-> uk[k], run |-> i])
                                           ELSE @,
                              ![i].dropped = IF runs[i].match_rx THEN @ ELSE @ + 1]
           /\ daemon_step' = NoDaemonStep
    /\ UNCHANGED <<detector_vars, app>>

\* detector.rs:196-226, 355-366: the stop message is seen, the mainloop quits,
\* run_detector returns Ok and the thread ends
DetectorExit ==
    /\ entry = "daemon"
    /\ \E i \in 1..Len(runs) :
           /\ runs[i].phase = "running"
           /\ runs[i].stop_rx = "sent"
           /\ runs' = [runs EXCEPT ![i].phase = "exited"]
           /\ daemon_step' = NoDaemonStep
    /\ UNCHANGED <<detector_vars, app>>

\* app.rs:134-158: the daemon starts with the mappings of its configuration and
\* no detector; the status says whether the model is on disk
InitDaemon ==
    /\ entry = "daemon"
    /\ MIN_TAIL_SAMPLES = CHUNK_SAMPLES - 1
    /\ audio_buf = <<>>
    /\ raw = <<>>
    /\ drained = <<>>
    /\ mono_buf = <<>>
    /\ chunk_count = 0
    /\ last_match = None
    /\ stop_flag = FALSE
    /\ stop_rx = "open"
    /\ input = NoInput
    /\ pc = "idle"
    /\ now = 0
    /\ raw_pos = 0
    /\ n_process = 0
    /\ mono_stream = <<>>
    /\ prev_chunk = None
    /\ tails_since_full = 0
    /\ last_event = None
    /\ last_emit = [k \in KeywordSet |-> None]
    /\ tick = NoTick
    /\ step = NoStep
    /\ \E status \in {"Ready", "Unavailable"}, mappings \in ConfigMappings :
           app = [NoApp EXCEPT !.word_detector_status = status, !.word_mappings = mappings]
    /\ runs = <<>>
    /\ daemon_step = NoDaemonStep

NextDaemon ==
    \/ AddWordMapping
    \/ RemoveWordMapping
    \/ StartWordDetector
    \/ StopWordDetector
    \/ try_autostart_detector
    \/ Poll
    \/ DetectorStartup
    \/ DetectorMatch
    \/ DetectorExit

SpecDaemon == InitDaemon /\ [][NextDaemon]_vars

\* The daemon's loop keeps turning (daemon.rs:134 polls at every turn) and a
\* spawned thread keeps running: its set-up ends one way or the other and a
\* stop message is acted on.  Nothing obliges a user to send a command.
SpecDaemonFair ==
    /\ InitDaemon
    /\ [][NextDaemon]_vars
    /\ WF_vars(Poll)
    /\ WF_vars(DetectorStartup)
    /\ WF_vars(DetectorExit)


\* C38: when poll_detector_matches receives a word that the detector sent
\* for a configured mapping (the mapping's word in lower case, whatever the
\* case the mapping is written in), it finds that mapping, plays its song and
\* returns a WordDetected event for the word.
C38_MappedWordDelivered ==
    daemon_step.op = "poll" =>
        \A j \in 1..Len(daemon_step.words) :
        \A i \in 1..Len(app.word_mappings) :
            to_lowercase(app.word_mappings[i]) = daemon_step.words[j].word =>
                \E e \in 1..Len(daemon_step.events) :
                    /\ daemon_step.events[e] = daemon_step.words[j]
                    /\ to_lowercase(app.word_mappings[daemon_step.played[e]])
                          = daemon_step.words[j].word

\* the mapping "Lucas" is matched as "lucas" and nothing comes of it
C38_MixedCaseLost ==
    /\ daemon_step.op = "poll"
    /\ app.word_mappings = << <<"L", "u", "c", "a", "s">> >>
    /\ Len(daemon_step.words) = 1
    /\ daemon_step.words[1].word = <<"l", "u", "c", "a", "s">>
    /\ daemon_step.events = <<>>

\* a lower-case mapping is found
C38_LowerCaseFound ==
    /\ daemon_step.op = "poll"
    /\ Len(daemon_step.words) = 1
    /\ daemon_step.events = daemon_step.words
    /\ app.word_mappings[daemon_step.played[1]] = daemon_step.words[1].word

\* C39: when the run the daemon counts as its detector has returned (with a
\* start-up error or otherwise) and stop_detector has not been called for
\* it, word_detector_status does not stay Running.
C39_RunningMeansAlive ==
    \A i \in 1..MaxRuns :
        (/\ i <= Len(runs)
         /\ ~Alive(runs[i])
         /\ app.detector_stop_tx = Some(i)
         /\ app.word_detector_status = "Running")
            ~> (app.word_detector_status # "Running")

\* the state the daemon is left in by a failed start-up
C39_RunningButDead ==
    /\ entry = "daemon"
    /\ app.word_detector_status = "Running"
    /\ app.detector_stop_tx # None
    /\ runs[app.detector_stop_tx[1]].phase = "error"

\* C40: the words poll_detector_matches receives were sent by the run started
\* last, and that run has not been stopped: nothing a run sends after
\* stop_detector or after a restart reaches the daemon.
C40_OnlyCurrentRun ==
    daemon_step.op = "poll" =>
        \A j \in 1..Len(daemon_step.words) :
            /\ daemon_step.words[j].run = Len(runs)
            /\ app.detector_stop_tx = Some(daemon_step.words[j].run)
            /\ app.detector_match_rx = Some(daemon_step.words[j].run)

C40_Witness ==
    /\ daemon_step.op = "poll"
    /\ Len(runs) = 2
    /\ runs[1].dropped > 0
    /\ Len(daemon_step.words) = 1
    /\ daemon_step.words[1].run = 2

====
